---- MODULE Spec2Model ----
(***************************************************************************)
(* State-machine model of submit-service's sampling pipeline.              *)
(*                                                                         *)
(*   /sample  (src/sample.js): preconditionsCheck, determineType,          *)
(*            setupTemp, the ESRI / http / ftp routers, cleanupTemp,       *)
(*            output, and the decoders parseGeoJsonStream, parseCsvStream, *)
(*            parseDbfStream and processZipFile.                           *)
(*   /fields  (src/app.js): the legacy per-format samplers.                *)
(*                                                                         *)
(* A remote source is its records 0 .. n-1; a record in results is the     *)
(* index of the source record it came from.  Every call of                 *)
(* res.status(..).send(..) is appended to sends, so res.headersSent is     *)
(* sends # << >>.                                                          *)
(***************************************************************************)
EXTENDS Integers, Sequences, FiniteSets, TLC

\* ----------------------------------------------------------------- bounds
NumRequests == 3
MaxRecords == 3
MaxSize == 2
MaxOffset == 1
MaxEntries == 2
MaxCount == 2

\* ------------------------------------------------------ program constants
DefaultSize == 10
DefaultOffset == 0
LineLimit == 101

Requests == 1..NumRequests

Min(a, b) == IF a < b THEN a ELSE b
Max(a, b) == IF a > b THEN a ELSE b

\* the integers a .. b-1 in ascending order, as a sequence
Range(a, b) == [i \in 1..Max(b - a, 0) |-> a + i - 1]

\* -------------------------------------------------------- request inputs
\* A source URL is kept as what determineType reads of it: the protocol,
\* whether the path matches arcgisRegexp, and the path's extension.
Protocols == {"http:", "https:", "ftp:", "file:"}
Exts == {".geojson", ".csv", ".TSV", ".zip", ".txt"}
Urls == [kind : {"url"}, protocol : Protocols, arcgis : BOOLEAN, ext : Exts]
\* req.query.source is missing / is a string new URL() throws on
NoSource == [kind |-> "missing", protocol |-> "", arcgis |-> FALSE, ext |-> ""]
BadUrl == [kind |-> "unparsable", protocol |-> "", arcgis |-> FALSE, ext |-> ""]
\* a raw query parameter: absent, a string of digits, a string that starts
\* with no digit ("abc"), or a minus sign and digits ("-1")
Absent == [kind |-> "absent", val |-> 0]
Digits(k) == [kind |-> "digits", val |-> k]
Word == [kind |-> "word", val |-> 0]
Negative(k) == [kind |-> "negative", val |-> k]
RawSizes == {Absent} \cup {Digits(k) : k \in 0..MaxSize}
RawOffsets == {Absent} \cup {Digits(k) : k \in 0..MaxOffset}
Queries == [source : Urls \cup {NoSource, BadUrl}, size : RawSizes, offset : RawOffsets]

\* a JavaScript number: NaN, or an integer value
NaN == [nan |-> TRUE, val |-> 0]
Number(k) == [nan |-> FALSE, val |-> k]
\* parseInt of a query parameter: undefined parses to NaN
ParseInt(raw) ==
    IF raw.kind = "digits" THEN Number(raw.val)
    ELSE IF raw.kind = "negative" THEN Number(0 - raw.val)
    ELSE NaN
\* _.defaultTo(value, dflt): dflt when value is NaN, null or undefined
DefaultTo(value, dflt) == IF value.nan THEN Number(dflt) ELSE value
\* _.isInteger
IsInteger(v) == ~v.nan /\ v.val \in Int

getProtocol(protocol) ==
    IF protocol \in {"http:", "https:"} THEN "http"
    ELSE IF protocol = "ftp:" THEN "ftp"
    ELSE "undefined"

\* /\.[cpt]sv$/ without the i flag
isDelimitedFileCaseSensitive(ext) == ext \in {".csv", ".tsv", ".psv"}

\* delimitedFileRegexp = /\.[cpt]sv$/i, on an extension
isDelimitedFile(ext) ==
    ext \in {".csv", ".CSV", ".Csv", ".tsv", ".TSV", ".psv", ".PSV"}

\* ------------------------------------------------------- source contents
\* n        number of records (features / rows) of the source
\* bad      position at which the payload is malformed (-1: well formed);
\*          the decoder fails when it has consumed `bad` good records
\* empty    the payload has no bytes at all (not even a header line)
\* deleted  DBF: indexes of the records flagged as deleted
\* paging   ArcGIS: the server honours resultRecordCount / resultOffset
\* errNode  ArcGIS: the JSON carries a top-level "error" member
\* entries  ZIP: the entry kinds in archive order
\* bare     GeoJSON: indexes of the features whose properties object is {}
\* header   delimited text: how often each candidate delimiter occurs in the
\*          header line
EntryKinds == {"csv", "geojson", "dbf", "other"}
\* the candidates in the order of the list given to _.pick: , | \t ;
Candidates == <<"comma", "pipe", "tab", "semicolon">>
CandidateSet == {Candidates[k] : k \in 1..Len(Candidates)}
\* a header line "a,b"
PlainHeader == [c \in CandidateSet |-> IF c = "comma" THEN 1 ELSE 0]
\* the first chunk of a delimited-text stream: whether it ends inside the
\* header line, and the candidates in the part of the line it holds
NoCut == [cut |-> FALSE, seen |-> PlainHeader]
RECURSIVE SeqsUpTo(_, _)
SeqsUpTo(S, k) ==
    IF k = 0 THEN {<< >>}
    ELSE LET shorter == SeqsUpTo(S, k - 1)
         IN  shorter \cup {Append(s, x) : s \in {t \in shorter : Len(t) = k - 1}, x \in S}

Payloads ==
    {[n |-> n, bad |-> b, empty |-> FALSE, deleted |-> {}, paging |-> TRUE,
      errNode |-> FALSE, entries |-> << >>, bare |-> {}, header |-> PlainHeader, chunk |-> NoCut] :
        n \in 0..MaxRecords, b \in -1..MaxRecords}
NoPayload == [n |-> 0, bad |-> -1, empty |-> TRUE, deleted |-> {}, paging |-> TRUE,
              errNode |-> FALSE, entries |-> << >>, bare |-> {}, header |-> PlainHeader, chunk |-> NoCut]
WellFormed(p) == p.bad = -1 \/ p.bad <= p.n

GeoJsonPayloads ==
    {p \in Payloads : WellFormed(p)}
        \cup {[p EXCEPT !.bare = {0}] : p \in {q \in Payloads : WellFormed(q) /\ q.n >= 1}}
CsvPayloads == {p \in Payloads : WellFormed(p)} \cup {NoPayload}
DbfPayloads ==
    {[p EXCEPT !.deleted = d] : p \in {q \in Payloads : WellFormed(q)},
                                d \in {{}} \cup {{k} : k \in 0..MaxRecords}}
ArcgisPayloads ==
    {[p EXCEPT !.paging = pg, !.errNode = e] :
        p \in {q \in Payloads : WellFormed(q)}, pg \in BOOLEAN, e \in BOOLEAN}
ZipPayloads ==
    {[p EXCEPT !.entries = es] :
        p \in {q \in Payloads : WellFormed(q) /\ q.n >= 1} \cup {NoPayload},
        es \in SeqsUpTo(EntryKinds, MaxEntries)}


\* ------------------------------------------------------------------ state
VARIABLES
    pc,             \* where each request's pipeline stands
    query,          \* req.query
    size,           \* res.locals.size
    offset,         \* res.locals.offset
    type,           \* res.locals.source.type
    ctype,          \* res.locals.source.conform.type
    compression,    \* res.locals.source.compression
    csvsplit,       \* res.locals.source.conform.csvsplit
    fields,         \* res.locals.source.source_data.fields
    results,        \* res.locals.source.source_data.results
    sends,          \* the status of every res.status(..).send(..) call, in order
    bodies,         \* the body of every res.status(..).send(..) call, in order
    payload,        \* what the remote source serves to this request
    conn,           \* the transport's data connection (HTTP request, FTP data stream)
    ctl,            \* the FTP control connection
    decoder,        \* the decoder last started for the request
    started,        \* how many decoders were started for the request
    pos,            \* how many source records the decoder has consumed
    entryIdx,       \* ZIP: the index of the entry the walker is at
    tempScope,      \* res.locals.temp
    tracked,        \* per temp scope, the files it tracks (a file is named by its creator)
    tempFile,       \* the state of the temp file each request created
    deletedBy,      \* which request's cleanup deleted the file (0: nobody)
    copied,         \* HTTP CSV: the lines of the temp file its reader gets (-1: no file)
    cleanupPending, \* next() calls that have not yet run cleanupTemp
    outputPending,  \* cleanupTemp callbacks that have not yet run output
    cleanups,       \* how many times cleanupTemp ran for the request
    readAfterStop,  \* bytes were read from the transport after the decoder stopped early
    quits,          \* how many times QUIT was issued on the FTP control connection
    response,       \* HTTP: the statusCode and content-type of the upstream response
    queried         \* ArcGIS: the parameters of every query sent to the service, in order

reqVars == <<query, size, offset, type, ctype, compression, csvsplit>>
dataVars == <<fields, results>>
netVars == <<payload, conn, ctl, readAfterStop, quits, response, queried, queried>>
decVars == <<decoder, started, pos, entryIdx>>
tempVars == <<tempScope, tracked, tempFile, deletedBy, copied>>
chainVars == <<cleanupPending, outputPending, cleanups>>
sent == <<sends, bodies>>
vars == <<pc, sent, reqVars, dataVars, netVars, decVars, tempVars, chainVars>>

\* response.statusCode values the upstream may answer with
StatusCodes == {200, 204, 404}
Responses == [statusCode : StatusCodes, textPlain : BOOLEAN]
NoResponse == [statusCode |-> 0, textPlain |-> FALSE]
\* a 200 response: its content-type is not looked at
Ok == [statusCode |-> 200, textPlain |-> FALSE]

NoQuery == [source |-> NoSource, size |-> Absent, offset |-> Absent]
\* require('temp') is one cached module object: every request gets the same scope
TempModule == 0
Scopes == {TempModule} \cup Requests

Init ==
    /\ pc = [r \in Requests |-> "idle"]
    /\ query = [r \in Requests |-> NoQuery]
    /\ size = [r \in Requests |-> 0]
    /\ offset = [r \in Requests |-> 0]
    /\ type = [r \in Requests |-> "undefined"]
    /\ ctype = [r \in Requests |-> "none"]
    /\ compression = [r \in Requests |-> "none"]
    /\ csvsplit = [r \in Requests |-> "undefined"]
    /\ fields = [r \in Requests |-> << >>]
    /\ results = [r \in Requests |-> << >>]
    /\ sends = [r \in Requests |-> << >>]
    /\ bodies = [r \in Requests |-> << >>]
    /\ payload = [r \in Requests |-> NoPayload]
    /\ conn = [r \in Requests |-> "none"]
    /\ ctl = [r \in Requests |-> "none"]
    /\ decoder = [r \in Requests |-> "none"]
    /\ started = [r \in Requests |-> 0]
    /\ pos = [r \in Requests |-> 0]
    /\ entryIdx = [r \in Requests |-> 0]
    /\ tempScope = [r \in Requests |-> -1]
    /\ tracked = [s \in Scopes |-> {}]
    /\ tempFile = [r \in Requests |-> "none"]
    /\ deletedBy = [r \in Requests |-> 0]
    /\ copied = [r \in Requests |-> -1]
    /\ cleanupPending = [r \in Requests |-> 0]
    /\ outputPending = [r \in Requests |-> 0]
    /\ cleanups = [r \in Requests |-> 0]
    /\ readAfterStop = [r \in Requests |-> FALSE]
    /\ quits = [r \in Requests |-> 0]
    /\ response = [r \in Requests |-> NoResponse]
    /\ queried = [r \in Requests |-> << >>]

headersSent(r) == sends[r] # << >>

\* res.status(code).type(..).send(..): nothing in it looks at res.headersSent
\* the body sent with a status by /sample: generateErrorMessage(400, ..), a
\* JSON object {error: {code, message}}, or res.locals.source
BodyOf(code) == IF code = 400 THEN "error" ELSE "source"

Send(r, code) ==
    /\ sends' = [sends EXCEPT ![r] = Append(@, code)]
    /\ bodies' = [bodies EXCEPT ![r] = Append(@, BodyOf(code))]

\* next() out of the routers: the chain goes on to cleanupTemp
CallNext(r) == cleanupPending' = [cleanupPending EXCEPT ![r] = @ + 1]

\* ------------------------------------------------------------- validation
Receive(r, Q) ==
    /\ pc[r] = "idle"
    /\ \E q \in Q : query' = [query EXCEPT ![r] = q]
    /\ pc' = [pc EXCEPT ![r] = "preconditionsCheck"]
    /\ UNCHANGED <<sent, size, offset, type, ctype, compression, csvsplit, dataVars, netVars,
                   decVars, tempVars, chainVars>>

\* preconditionsCheck with next() called after the 400 as well
preconditionsCheckAlwaysNext(r) ==
    /\ pc[r] = "preconditionsCheck"
    /\ IF query[r].source.kind = "missing" THEN Send(r, 400) ELSE UNCHANGED sent
    /\ pc' = [pc EXCEPT ![r] = "determineType"]
    /\ UNCHANGED <<reqVars, dataVars, netVars, decVars, tempVars, chainVars>>

preconditionsCheck(r) ==
    /\ pc[r] = "preconditionsCheck"
    /\ IF query[r].source.kind = "missing"
         THEN Send(r, 400) /\ pc' = [pc EXCEPT ![r] = "halted"]
         ELSE pc' = [pc EXCEPT ![r] = "determineType"] /\ UNCHANGED sent
    /\ UNCHANGED <<reqVars, dataVars, netVars, decVars, tempVars, chainVars>>

\* the branch of the if / else-if chain of determineType that a URL takes
\* the classification with the extension tests ahead of the ArcGIS pattern
ClassifyExtensionFirst(u) ==
    IF u.ext = ".geojson"
      THEN [type |-> getProtocol(u.protocol), ctype |-> "geojson", compression |-> "none", ok |-> TRUE]
    ELSE IF isDelimitedFile(u.ext)
      THEN [type |-> getProtocol(u.protocol), ctype |-> "csv", compression |-> "none", ok |-> TRUE]
    ELSE IF u.ext = ".zip"
      THEN [type |-> getProtocol(u.protocol), ctype |-> "none", compression |-> "zip", ok |-> TRUE]
    ELSE IF u.arcgis
      THEN [type |-> "ESRI", ctype |-> "geojson", compression |-> "none", ok |-> TRUE]
    ELSE [type |-> "undefined", ctype |-> "none", compression |-> "none", ok |-> FALSE]

Classify(u) ==
    IF u.arcgis THEN [type |-> "ESRI", ctype |-> "geojson", compression |-> "none", ok |-> TRUE]
    ELSE IF u.ext = ".geojson"
      THEN [type |-> getProtocol(u.protocol), ctype |-> "geojson", compression |-> "none", ok |-> TRUE]
    ELSE IF isDelimitedFile(u.ext)
      THEN [type |-> getProtocol(u.protocol), ctype |-> "csv", compression |-> "none", ok |-> TRUE]
    ELSE IF u.ext = ".zip"
      THEN [type |-> getProtocol(u.protocol), ctype |-> "none", compression |-> "zip", ok |-> TRUE]
    ELSE [type |-> "undefined", ctype |-> "none", compression |-> "none", ok |-> FALSE]

determineType(r) ==
    /\ pc[r] = "determineType"
    /\ LET q == query[r]
           sz == DefaultTo(ParseInt(q.size), DefaultSize)
           off == DefaultTo(ParseInt(q.offset), DefaultOffset)
       IN  IF q.source.kind = "unparsable"
             THEN /\ Send(r, 400)
                  /\ pc' = [pc EXCEPT ![r] = "halted"]
                  /\ UNCHANGED <<size, offset, type, ctype, compression>>
           ELSE IF ~IsInteger(sz)
             THEN /\ Send(r, 400)
                  /\ pc' = [pc EXCEPT ![r] = "halted"]
                  /\ size' = [size EXCEPT ![r] = sz.val]
                  /\ UNCHANGED <<offset, type, ctype, compression>>
           ELSE IF ~IsInteger(off)
             THEN /\ Send(r, 400)
                  /\ pc' = [pc EXCEPT ![r] = "halted"]
                  /\ size' = [size EXCEPT ![r] = sz.val]
                  /\ offset' = [offset EXCEPT ![r] = off.val]
                  /\ UNCHANGED <<type, ctype, compression>>
           ELSE LET c == Classify(q.source)
                IN  /\ size' = [size EXCEPT ![r] = sz.val]
                    /\ offset' = [offset EXCEPT ![r] = off.val]
                    /\ type' = [type EXCEPT ![r] = c.type]
                    /\ ctype' = [ctype EXCEPT ![r] = c.ctype]
                    /\ compression' = [compression EXCEPT ![r] = c.compression]
                    /\ IF c.ok
                         THEN pc' = [pc EXCEPT ![r] = "setupTemp"] /\ UNCHANGED sent
                         ELSE Send(r, 400) /\ pc' = [pc EXCEPT ![r] = "halted"]
    /\ UNCHANGED <<query, csvsplit, dataVars, netVars, decVars, tempVars, chainVars>>

\* the scope object require('temp').track() hands to request r
TempScopeOf(r) == TempModule

setupTemp(r) ==
    /\ pc[r] = "setupTemp"
    /\ tempScope' = [tempScope EXCEPT ![r] = TempScopeOf(r)]
    /\ pc' = [pc EXCEPT ![r] = "routers"]
    /\ UNCHANGED <<sent, reqVars, dataVars, netVars, decVars, tracked, tempFile,
                   deletedBy, copied, chainVars>>

\* res.locals.temp.createWriteStream(): the file exists and is tracked at once
CreateTemp(r) ==
    /\ tempFile' = [tempFile EXCEPT ![r] = "open"]
    /\ tracked' = [tracked EXCEPT ![tempScope[r]] = @ \cup {r}]
    /\ UNCHANGED <<tempScope, deletedBy, copied>>


\* ---------------------------------------------------------------- decoders
\* the decoder reads the transport's stream itself (no temp file in between)
FedByConn(r) ==
    /\ type[r] \in {"http", "ftp"}
    /\ compression[r] = "none"
    /\ ~(type[r] = "http" /\ ctype[r] = "csv")

\* the decoder's input still delivers data
Flowing(r) == FedByConn(r) => conn[r] = "open"

\* the rows the delimited-text decoder can see: all of them, but for an HTTP
\* source only those its read stream finds in the temp file (the lines after
\* the header)
ViaTempCsv(r) == type[r] = "http" /\ ctype[r] = "csv" /\ compression[r] = "none"

Visible(r) ==
    IF ViaTempCsv(r) THEN Max(copied[r] - 1, 0) ELSE payload[r].n

\* the decoder's input holds no byte at all
NoInput(r) == IF ViaTempCsv(r) THEN copied[r] = 0 ELSE payload[r].empty

\* the position at which the decoder meets malformed input (-1: never)
VisibleBad(r) ==
    LET b == payload[r].bad
    IN  IF b # -1 /\ (b < Visible(r) \/ Visible(r) = payload[r].n) THEN b ELSE -1

\* _.keys(properties) of feature i / the names of a header
Keys(p, i) == IF i \in p.bare THEN << >> ELSE <<i>>
HeaderFields == <<-1>>

StartDecoder(r, kind) ==
    /\ decoder' = [decoder EXCEPT ![r] = kind]
    /\ started' = [started EXCEPT ![r] = @ + 1]
    /\ pos' = [pos EXCEPT ![r] = 0]
    /\ pc' = [pc EXCEPT ![r] = IF kind = "geojson" THEN "decoding" ELSE "header"]
    \* parseDbfStream starts with source_data.results = []
    /\ results' = IF kind = "dbf" THEN [results EXCEPT ![r] = << >>] ELSE results

DecoderOf(ct) ==
    IF ct = "geojson" THEN "geojson" ELSE IF ct = "csv" THEN "csv" ELSE "dbf"

\* the stream the decoder read to its end is the transport's: it has ended
EndOfInput(r) == conn' = IF FedByConn(r) THEN [conn EXCEPT ![r] = "ended"] ELSE conn

\* index of the last wanted feature
last(r) == offset[r] + size[r] - 1

\* oboe: one feature parsed; 'features.*.properties' fires, then 'features[last]'
parseGeoJsonStream(r) ==
    /\ pc[r] = "decoding" /\ decoder[r] = "geojson"
    /\ Flowing(r)
    /\ pos[r] < payload[r].n /\ pos[r] # payload[r].bad
    /\ LET i == pos[r]
       IN  /\ IF i < offset[r]
                THEN UNCHANGED <<fields, results>>
                ELSE /\ fields' = IF fields[r] = << >>
                                    THEN [fields EXCEPT ![r] = Keys(payload[r], i)]
                                    ELSE fields
                     /\ results' = [results EXCEPT ![r] = Append(@, i)]
           /\ IF i = last(r)
                \* this.abort(); next()
                THEN pc' = [pc EXCEPT ![r] = "aborted"] /\ CallNext(r)
                ELSE UNCHANGED <<pc, cleanupPending>>
           /\ pos' = [pos EXCEPT ![r] = i + 1]
    /\ UNCHANGED <<sent, reqVars, netVars, decoder, started, entryIdx, tempVars,
                   outputPending, cleanups>>

\* oboe .fail: the text is not JSON
GeoJsonFail(r) ==
    /\ pc[r] = "decoding" /\ decoder[r] = "geojson"
    /\ Flowing(r)
    /\ pos[r] = payload[r].bad
    /\ Send(r, 400)
    /\ pc' = [pc EXCEPT ![r] = "halted"]
    /\ UNCHANGED <<reqVars, dataVars, netVars, decVars, tempVars, chainVars>>

\* an oboe whose .done still fires after .abort()
GeoJsonDoneAfterAbort(r) ==
    /\ pc[r] \in {"decoding", "aborted"} /\ decoder[r] = "geojson"
    /\ Flowing(r)
    /\ pos[r] = payload[r].n /\ payload[r].bad = -1
    /\ EndOfInput(r)
    /\ IF ~headersSent(r)
         THEN pc' = [pc EXCEPT ![r] = "finished"] /\ CallNext(r)
         ELSE pc' = [pc EXCEPT ![r] = "halted"] /\ UNCHANGED cleanupPending
    /\ UNCHANGED <<sent, reqVars, dataVars, payload, ctl, readAfterStop, quits, response, queried, decVars,
                   tempVars, outputPending, cleanups>>

\* oboe .done: the document ended before feature `last`
GeoJsonDone(r) ==
    /\ pc[r] = "decoding" /\ decoder[r] = "geojson"
    /\ Flowing(r)
    /\ pos[r] = payload[r].n /\ payload[r].bad = -1
    /\ EndOfInput(r)
    /\ IF ~headersSent(r)
         THEN pc' = [pc EXCEPT ![r] = "finished"] /\ CallNext(r)
         ELSE pc' = [pc EXCEPT ![r] = "halted"] /\ UNCHANGED cleanupPending
    /\ UNCHANGED <<sent, reqVars, dataVars, payload, ctl, readAfterStop, quits, response, queried, decVars,
                   tempVars, outputPending, cleanups>>

\* a pick list with the semicolon ahead of the tab
delimiterHistogramSemicolonFirst(h) ==
    SelectSeq(<<"comma", "pipe", "semicolon", "tab">>, LAMBDA c : h[c] > 0)

\* _.pick(_.countBy(headerLine), [',', '|', '\t', ';']): the candidates that
\* occur in the header line, in the order of the list
delimiterHistogram(h) == SelectSeq(Candidates, LAMBDA c : h[c] > 0)

\* _.maxBy(keys, i => h[i]): the first key whose count is greater than that
\* of every key before it and not less than any after it; undefined for no
\* keys at all
RECURSIVE MaxByFrom(_, _, _, _)
MaxByFrom(keys, h, k, best) ==
    IF k > Len(keys) THEN best
    ELSE IF best = "undefined" \/ h[keys[k]] > h[best]
      THEN MaxByFrom(keys, h, k + 1, keys[k])
      ELSE MaxByFrom(keys, h, k + 1, best)

\* _.maxBy with >= for >: the last of several maxima wins
RECURSIVE MaxByLastFrom(_, _, _, _)
MaxByLastFrom(keys, h, k, best) ==
    IF k > Len(keys) THEN best
    ELSE IF best = "undefined" \/ h[keys[k]] >= h[best]
      THEN MaxByLastFrom(keys, h, k + 1, keys[k])
      ELSE MaxByLastFrom(keys, h, k + 1, best)

likelyDelimiterLast(h) == MaxByLastFrom(delimiterHistogram(h), h, 1, "undefined")

likelyDelimiter(h) == MaxByFrom(delimiterHistogram(h), h, 1, "undefined")

\* the names headerLine.split() gives for a header line cut short
TruncatedFields == <<-2>>

\* the header's remainder reaches csvParse as a record of its own
Shift(r) == IF payload[r].chunk.cut THEN 1 ELSE 0

\* stream.once('data'): the first line of the first chunk is sniffed as the
\* header line and the rest of the chunk is piped on.  When the chunk ends
\* inside the header line, the line's remainder comes with the next chunk.
CsvHeader(r) ==
    /\ pc[r] = "header" /\ decoder[r] = "csv"
    /\ Flowing(r)
    /\ ~NoInput(r)
    /\ IF payload[r].chunk.cut
         THEN /\ fields' = [fields EXCEPT ![r] = TruncatedFields]
              /\ csvsplit' = [csvsplit EXCEPT ![r] = likelyDelimiter(payload[r].chunk.seen)]
              /\ pc' = [pc EXCEPT ![r] = "remainder"]
         ELSE /\ fields' = [fields EXCEPT ![r] = HeaderFields]
              /\ csvsplit' = [csvsplit EXCEPT ![r] = likelyDelimiter(payload[r].header)]
              /\ pc' = [pc EXCEPT ![r] = "decoding"]
    /\ UNCHANGED <<sent, query, size, offset, type, ctype, compression, results, netVars,
                   decVars, tempVars, chainVars>>

\* csvParse reads the header's remainder as its first record: it either
\* rejects it ('error') or emits it, and then from and the through2 stage
\* treat it like any row (it is kept in results as record -1)
CsvRemainder(r) ==
    /\ pc[r] = "remainder" /\ decoder[r] = "csv"
    /\ Flowing(r)
    /\ \/ /\ Send(r, 400)
          /\ pc' = [pc EXCEPT ![r] = "halted"]
          /\ UNCHANGED <<results, cleanupPending>>
       \/ /\ UNCHANGED sent
          /\ IF 0 < offset[r]
               THEN /\ pc' = [pc EXCEPT ![r] = "decoding"]
                    /\ UNCHANGED <<results, cleanupPending>>
               ELSE IF Len(results[r]) < size[r]
                 THEN /\ results' = [results EXCEPT ![r] = Append(@, -1)]
                      /\ pc' = [pc EXCEPT ![r] = "decoding"]
                      /\ UNCHANGED cleanupPending
                 ELSE /\ pc' = [pc EXCEPT ![r] = "aborted"]
                      /\ CallNext(r)
                      /\ UNCHANGED results
    /\ UNCHANGED <<reqVars, fields, netVars, decVars, tempVars, outputPending, cleanups>>

\* the stream ends without a 'data' event: no listener of parseCsvStream runs
CsvNoData(r) ==
    /\ pc[r] = "header" /\ decoder[r] = "csv"
    /\ Flowing(r)
    /\ NoInput(r)
    /\ EndOfInput(r)
    /\ pc' = [pc EXCEPT ![r] = "halted"]
    /\ UNCHANGED <<sent, reqVars, dataVars, payload, ctl, readAfterStop, quits, response, queried, decVars,
                   tempVars, chainVars>>

\* a csvParse without the from option: no row is skipped
parseCsvStreamNoFrom(r) ==
    /\ pc[r] = "decoding" /\ decoder[r] = "csv"
    /\ Flowing(r)
    /\ pos[r] < Visible(r) /\ pos[r] # VisibleBad(r)
    /\ LET i == pos[r]
       IN  /\ pos' = [pos EXCEPT ![r] = i + 1]
           /\ IF Len(results[r]) < size[r]
                THEN /\ results' = [results EXCEPT ![r] = Append(@, i)]
                     /\ UNCHANGED <<pc, cleanupPending>>
                ELSE /\ pc' = [pc EXCEPT ![r] = "aborted"]
                     /\ CallNext(r)
                     /\ UNCHANGED results
    /\ UNCHANGED <<sent, reqVars, fields, netVars, decoder, started, entryIdx, tempVars,
                   outputPending, cleanups>>

\* csvParse reads one row; from: offset+1 drops the first offset rows, the
\* through2 stage keeps a row while results.length < size and destroys itself
\* ('close' -> next) on the first row after that
parseCsvStream(r) ==
    /\ pc[r] = "decoding" /\ decoder[r] = "csv"
    /\ Flowing(r)
    /\ pos[r] < Visible(r) /\ pos[r] # VisibleBad(r)
    /\ LET i == pos[r]
       IN  /\ pos' = [pos EXCEPT ![r] = i + 1]
           /\ IF i + Shift(r) < offset[r]
                THEN UNCHANGED <<results, pc, cleanupPending>>
                ELSE IF Len(results[r]) < size[r]
                  THEN /\ results' = [results EXCEPT ![r] = Append(@, i)]
                       /\ UNCHANGED <<pc, cleanupPending>>
                  \* this.destroy(); 'close' calls next()
                  ELSE /\ pc' = [pc EXCEPT ![r] = "aborted"]
                       /\ CallNext(r)
                       /\ UNCHANGED results
    /\ UNCHANGED <<sent, reqVars, fields, netVars, decoder, started, entryIdx, tempVars,
                   outputPending, cleanups>>

\* csvParse 'error'
CsvError(r) ==
    /\ pc[r] = "decoding" /\ decoder[r] = "csv"
    /\ Flowing(r)
    /\ pos[r] = VisibleBad(r)
    /\ Send(r, 400)
    /\ pc' = [pc EXCEPT ![r] = "halted"]
    /\ UNCHANGED <<reqVars, dataVars, netVars, decVars, tempVars, chainVars>>

\* through2 'finish': the input ended
CsvFinish(r) ==
    /\ pc[r] = "decoding" /\ decoder[r] = "csv"
    /\ Flowing(r)
    /\ pos[r] = Visible(r) /\ VisibleBad(r) = -1
    /\ EndOfInput(r)
    /\ pc' = [pc EXCEPT ![r] = "finished"]
    /\ CallNext(r)
    /\ UNCHANGED <<sent, reqVars, dataVars, payload, ctl, readAfterStop, quits, response, queried, decVars,
                   tempVars, outputPending, cleanups>>

\* YADBF 'header'
DbfHeader(r) ==
    /\ pc[r] = "header" /\ decoder[r] = "dbf"
    /\ payload[r].bad # 0
    /\ fields' = [fields EXCEPT ![r] = HeaderFields]
    /\ pc' = [pc EXCEPT ![r] = "decoding"]
    /\ UNCHANGED <<sent, reqVars, results, netVars, decVars, tempVars, chainVars>>

\* how many records before i are not flagged deleted
VisibleBefore(p, i) == Cardinality({j \in 0..(i - 1) : j \notin p.deleted})

\* YADBF has emitted its last record: size records or the end of the file
DbfExhausted(r) ==
    \/ Len(results[r]) >= size[r]
    \/ pos[r] = payload[r].n

\* YADBF reads one record and emits 'data' for it unless it is flagged deleted
\* or among the first offset records that are not
parseDbfStream(r) ==
    /\ pc[r] = "decoding" /\ decoder[r] = "dbf"
    /\ ~DbfExhausted(r) /\ pos[r] # payload[r].bad
    /\ LET i == pos[r]
       IN  /\ pos' = [pos EXCEPT ![r] = i + 1]
           /\ IF i \in payload[r].deleted \/ VisibleBefore(payload[r], i) < offset[r]
                THEN UNCHANGED results
                ELSE results' = [results EXCEPT ![r] = Append(@, i)]
    /\ UNCHANGED <<pc, sent, reqVars, fields, netVars, decoder, started, entryIdx,
                   tempVars, chainVars>>

\* YADBF 'error'
DbfError(r) ==
    /\ pc[r] \in {"header", "decoding"} /\ decoder[r] = "dbf"
    /\ ~(pc[r] = "decoding" /\ Len(results[r]) >= size[r])
    /\ pos[r] = payload[r].bad
    /\ Send(r, 400)
    /\ pc' = [pc EXCEPT ![r] = "halted"]
    /\ UNCHANGED <<reqVars, dataVars, netVars, decVars, tempVars, chainVars>>

\* YADBF 'end'
DbfEnd(r) ==
    /\ pc[r] = "decoding" /\ decoder[r] = "dbf"
    /\ DbfExhausted(r)
    /\ ~(pos[r] = payload[r].bad /\ Len(results[r]) < size[r])
    /\ IF ~headersSent(r)
         THEN pc' = [pc EXCEPT ![r] = "finished"] /\ CallNext(r)
         ELSE pc' = [pc EXCEPT ![r] = "halted"] /\ UNCHANGED cleanupPending
    /\ UNCHANGED <<sent, reqVars, dataVars, netVars, decVars, tempVars, outputPending,
                   cleanups>>


\* -------------------------------------------------------------- ZIP walker
\* the temp file can still be opened by its path
Readable(r) == tempFile[r] \in {"open", "closed"}

\* processZipFile: the transport's stream is piped to a new temp file
processZipFile(r) ==
    /\ CreateTemp(r)
    /\ pc' = [pc EXCEPT ![r] = "zipCopy"]

\* tmpZipStream 'close': the whole stream is in the temp file; yauzl.open starts
ZipCopied(r) ==
    /\ pc[r] = "zipCopy"
    /\ conn[r] = "open"
    /\ conn' = [conn EXCEPT ![r] = "ended"]
    /\ tempFile' = [tempFile EXCEPT ![r] = IF @ = "open" THEN "closed" ELSE @]
    /\ pc' = [pc EXCEPT ![r] = "zipOpen"]
    /\ UNCHANGED <<sent, reqVars, dataVars, payload, ctl, readAfterStop, quits, response, queried, decVars,
                   tempScope, tracked, deletedBy, copied, chainVars>>

\* the callback of yauzl.open: an error (no such file, not an archive), or
\* the first zipfile.readEntry()
ZipOpened(r) ==
    /\ pc[r] = "zipOpen"
    /\ IF ~Readable(r) \/ payload[r].empty
         THEN /\ Send(r, 400)
              /\ pc' = [pc EXCEPT ![r] = "halted"]
              /\ UNCHANGED entryIdx
         ELSE /\ pc' = [pc EXCEPT ![r] = "zipWalk"]
              /\ entryIdx' = [entryIdx EXCEPT ![r] = 1]
              /\ UNCHANGED sent
    /\ UNCHANGED <<reqVars, dataVars, netVars, decoder, started, pos, tempVars, chainVars>>

\* zipfile 'entry': a recognized entry sets conform.type and is opened, any
\* other entry is skipped with the next readEntry()
ZipEntry(r) ==
    /\ pc[r] = "zipWalk"
    /\ entryIdx[r] <= Len(payload[r].entries)
    /\ LET kind == payload[r].entries[entryIdx[r]]
       IN  IF kind = "other"
             THEN /\ entryIdx' = [entryIdx EXCEPT ![r] = @ + 1]
                  /\ UNCHANGED <<pc, ctype>>
             ELSE /\ ctype' = [ctype EXCEPT ![r] = IF kind = "dbf" THEN "shapefile" ELSE kind]
                  /\ pc' = [pc EXCEPT ![r] = "entryOpen"]
                  /\ UNCHANGED entryIdx
    /\ UNCHANGED <<sent, query, size, offset, type, compression, csvsplit, dataVars, netVars,
                   decoder, started, pos, tempVars, chainVars>>

\* the callback of zipfile.openReadStream: an error is only logged
EntryOpened(r) ==
    /\ pc[r] = "entryOpen"
    /\ \E err \in BOOLEAN :
         IF err
           THEN /\ pc' = [pc EXCEPT ![r] = "halted"]
                /\ UNCHANGED <<results, decoder, started, pos>>
           ELSE StartDecoder(r, DecoderOf(ctype[r]))
    /\ UNCHANGED <<sent, reqVars, fields, netVars, entryIdx, tempVars, chainVars>>

\* zipfile 'error': reading an entry's header fails (past the last entry
\* readEntry() reads nothing and only schedules 'end')
ZipError(r) ==
    /\ pc[r] = "zipWalk"
    /\ entryIdx[r] <= Len(payload[r].entries)
    /\ Send(r, 400)
    /\ pc' = [pc EXCEPT ![r] = "halted"]
    /\ UNCHANGED <<reqVars, dataVars, netVars, decVars, tempVars, chainVars>>

\* a zipfile 'end' that hands over to the rest of the chain instead of sending
ZipEndCallsNext(r) ==
    /\ pc[r] = "zipWalk"
    /\ entryIdx[r] > Len(payload[r].entries)
    /\ pc' = [pc EXCEPT ![r] = "finished"]
    /\ CallNext(r)
    /\ UNCHANGED <<sent, reqVars, dataVars, netVars, decVars, tempVars, outputPending,
                   cleanups>>

\* zipfile 'end': readEntry() ran past the last entry
ZipEnd(r) ==
    /\ pc[r] = "zipWalk"
    /\ entryIdx[r] > Len(payload[r].entries)
    /\ IF ctype[r] = "none" THEN Send(r, 400) ELSE UNCHANGED sent
    /\ pc' = [pc EXCEPT ![r] = "halted"]
    /\ UNCHANGED <<reqVars, dataVars, netVars, decVars, tempVars, chainVars>>

\* ------------------------------------------------------------ HTTP adapter
sampleHttpSource(r) ==
    /\ pc[r] = "routers" /\ type[r] = "http"
    /\ conn' = [conn EXCEPT ![r] = "connecting"]
    /\ pc' = [pc EXCEPT ![r] = "connecting"]
    /\ UNCHANGED <<sent, reqVars, dataVars, payload, ctl, readAfterStop, quits, response, queried, decVars,
                   tempVars, chainVars>>

\* r.on('error'): the handler sends; when the error body was being collected,
\* the callback of toString sends as well
HttpError(r) ==
    /\ type[r] = "http"
    /\ conn[r] \in {"connecting", "open"}
    /\ conn' = [conn EXCEPT ![r] = "failed"]
    /\ sends' = [sends EXCEPT ![r] =
                    IF pc[r] = "errbody" THEN @ \o <<400, 400>> ELSE Append(@, 400)]
    /\ bodies' = [bodies EXCEPT ![r] =
                     IF pc[r] = "errbody" THEN @ \o <<BodyOf(400), BodyOf(400)>>
                                          ELSE Append(@, BodyOf(400))]
    /\ pc' = [pc EXCEPT ![r] =
                 IF \/ @ \in {"connecting", "errbody", "csvCopy", "zipCopy"}
                    \/ (@ \in {"header", "decoding"} /\ FedByConn(r))
                   THEN "halted" ELSE @]
    /\ UNCHANGED <<reqVars, dataVars, payload, ctl, readAfterStop, quits, response, queried, decVars, tempVars,
                   chainVars>>

\* r.on('response') with a status other than 200
HttpStatusError(r) ==
    /\ pc[r] = "connecting" /\ conn[r] = "connecting"
    /\ conn' = [conn EXCEPT ![r] = "open"]
    /\ \E resp \in Responses :
         /\ resp.statusCode # 200
         /\ response' = [response EXCEPT ![r] = resp]
         /\ IF resp.textPlain
              THEN pc' = [pc EXCEPT ![r] = "errbody"] /\ UNCHANGED sent
              ELSE pc' = [pc EXCEPT ![r] = "halted"] /\ Send(r, 400)
    /\ UNCHANGED <<reqVars, dataVars, payload, ctl, readAfterStop, quits, queried, decVars, tempVars,
                   chainVars>>

\* the callback of toString(r, ..): the text/plain error body was read
HttpErrorBody(r) ==
    /\ pc[r] = "errbody" /\ conn[r] = "open"
    /\ conn' = [conn EXCEPT ![r] = "ended"]
    /\ Send(r, 400)
    /\ pc' = [pc EXCEPT ![r] = "halted"]
    /\ UNCHANGED <<reqVars, dataVars, payload, ctl, readAfterStop, quits, response, queried, decVars, tempVars,
                   chainVars>>

\* r.on('response') with status 200: the body goes to the decoder of conform.type
HttpResponse(r, P) ==
    /\ pc[r] = "connecting" /\ conn[r] = "connecting"
    /\ conn' = [conn EXCEPT ![r] = "open"]
    /\ response' = [response EXCEPT ![r] = Ok]
    /\ \/ /\ ctype[r] = "geojson"
          /\ \E p \in P.geojson : payload' = [payload EXCEPT ![r] = p]
          /\ StartDecoder(r, "geojson")
          /\ UNCHANGED tempVars
       \/ /\ ctype[r] = "csv"
          /\ \E p \in P.csv : payload' = [payload EXCEPT ![r] = p]
          /\ CreateTemp(r)
          /\ pc' = [pc EXCEPT ![r] = "csvCopy"]
          /\ UNCHANGED <<results, decoder, started, pos>>
       \/ /\ ctype[r] # "geojson" /\ ctype[r] # "csv" /\ compression[r] = "zip"
          /\ \E p \in P.zip : payload' = [payload EXCEPT ![r] = p]
          /\ processZipFile(r)
          /\ UNCHANGED <<results, decoder, started, pos>>
    /\ UNCHANGED <<sent, reqVars, fields, ctl, readAfterStop, quits, queried, entryIdx, chainVars>>

\* the lines of the temp file that fs.createReadStream delivers when 'close'
\* was emitted by hand: the write stream is neither ended nor flushed, so the
\* reader meets the end of the file after the lines written so far
FlushPoints == {0, 1, LineLimit - 1, LineLimit}

\* either the source ended (the write stream ends, flushes and closes by
\* itself) or line LineLimit + 1 arrived (the stage destroys itself and 'close'
\* is emitted by hand; the request r is left as it is).  parseCsvStream then
\* opens the file.
CsvCopied(r) ==
    /\ pc[r] = "csvCopy" /\ conn[r] = "open"
    /\ LET lines == IF payload[r].empty THEN 0 ELSE payload[r].n + 1
       IN  IF lines <= LineLimit
             THEN /\ conn' = [conn EXCEPT ![r] = "ended"]
                  /\ copied' = [copied EXCEPT ![r] = lines]
             ELSE /\ conn' = conn
                  /\ \E k \in FlushPoints : copied' = [copied EXCEPT ![r] = k]
    /\ tempFile' = [tempFile EXCEPT ![r] = IF @ = "open" THEN "closed" ELSE @]
    /\ IF Readable(r)
         THEN StartDecoder(r, "csv")
         \* fs.createReadStream of an unlinked path: 'error' with no listener
         ELSE pc' = [pc EXCEPT ![r] = "halted"] /\ UNCHANGED <<results, decoder, started, pos>>
    /\ UNCHANGED <<sent, reqVars, fields, payload, ctl, readAfterStop, quits, response, queried, entryIdx,
                   tempScope, tracked, deletedBy, chainVars>>

\* the 'error' listener of the line-limiting stage: it sends and calls next()
CsvCopyError(r) ==
    /\ pc[r] = "csvCopy" /\ conn[r] = "open"
    /\ Send(r, 400)
    /\ CallNext(r)
    /\ pc' = [pc EXCEPT ![r] = "finished"]
    /\ UNCHANGED <<reqVars, dataVars, netVars, decVars, tempVars, outputPending, cleanups>>


\* ------------------------------------------------------------- FTP adapter
sampleFtpSource(r) ==
    /\ pc[r] = "routers" /\ type[r] = "ftp"
    /\ ctl' = [ctl EXCEPT ![r] = "connecting"]
    /\ pc' = [pc EXCEPT ![r] = "ftpAuth"]
    /\ UNCHANGED <<sent, reqVars, dataVars, payload, conn, readAfterStop, quits, response, queried, decVars,
                   tempVars, chainVars>>

\* ftp.on('error'): an error of the control connection, at any time it is up
FtpError(r) ==
    /\ ctl[r] \in {"connecting", "open"}
    /\ ctl' = [ctl EXCEPT ![r] = "failed"]
    /\ Send(r, 400)
    /\ pc' = [pc EXCEPT ![r] = IF @ \in {"ftpAuth", "ftpGet"} THEN "halted" ELSE @]
    /\ UNCHANGED <<reqVars, dataVars, payload, conn, readAfterStop, quits, response, queried, decVars, tempVars,
                   chainVars>>

\* the callback of ftp.auth
FtpAuth(r) ==
    /\ pc[r] = "ftpAuth" /\ ctl[r] = "connecting"
    /\ ctl' = [ctl EXCEPT ![r] = "open"]
    /\ \E authErr \in BOOLEAN :
         IF authErr
           THEN Send(r, 400) /\ pc' = [pc EXCEPT ![r] = "halted"]
           ELSE pc' = [pc EXCEPT ![r] = "ftpGet"] /\ UNCHANGED sent
    /\ UNCHANGED <<reqVars, dataVars, payload, conn, readAfterStop, quits, response, queried, decVars, tempVars,
                   chainVars>>

\* the callback of ftp.get with an error
FtpGetError(r) ==
    /\ pc[r] = "ftpGet" /\ ctl[r] = "open"
    /\ Send(r, 400)
    /\ pc' = [pc EXCEPT ![r] = "halted"]
    /\ UNCHANGED <<reqVars, dataVars, netVars, decVars, tempVars, chainVars>>

\* the callback of ftp.get with the data stream
FtpGet(r, P) ==
    /\ pc[r] = "ftpGet" /\ ctl[r] = "open"
    /\ conn' = [conn EXCEPT ![r] = "open"]
    /\ \/ /\ ctype[r] = "geojson"
          /\ \E p \in P.geojson : payload' = [payload EXCEPT ![r] = p]
          /\ StartDecoder(r, "geojson")
          /\ UNCHANGED tempVars
       \/ /\ ctype[r] = "csv"
          /\ \E p \in P.csv : payload' = [payload EXCEPT ![r] = p]
          /\ StartDecoder(r, "csv")
          /\ UNCHANGED tempVars
       \/ /\ ctype[r] # "geojson" /\ ctype[r] # "csv" /\ compression[r] = "zip"
          /\ \E p \in P.zip : payload' = [payload EXCEPT ![r] = p]
          /\ processZipFile(r)
          /\ UNCHANGED <<results, decoder, started, pos>>
    /\ UNCHANGED <<sent, reqVars, fields, ctl, readAfterStop, quits, response, queried, entryIdx, chainVars>>

\* ---------------------------------------------------------- ArcGIS adapter
\* the records of the server's answer to the query
Served(r) ==
    IF payload[r].paging
      THEN Range(offset[r], Min(payload[r].n, offset[r] + size[r]))
      ELSE Range(0, payload[r].n)

ServedBad(r) == IF payload[r].bad <= Len(Served(r)) THEN payload[r].bad ELSE -1

sampleArcgis(r) ==
    /\ pc[r] = "routers" /\ type[r] = "ESRI"
    /\ queried' = [queried EXCEPT ![r] =
                      Append(@, [resultRecordCount |-> size[r], resultOffset |-> offset[r]])]
    /\ conn' = [conn EXCEPT ![r] = "connecting"]
    /\ pc' = [pc EXCEPT ![r] = "arcgis"]
    /\ UNCHANGED <<sent, reqVars, dataVars, payload, ctl, readAfterStop, quits, response, decVars,
                   tempVars, chainVars>>

\* oboe .fail before any JSON: connection refused, a status other than 2xx
ArcgisConnFail(r) ==
    /\ pc[r] = "arcgis" /\ conn[r] = "connecting"
    /\ conn' = [conn EXCEPT ![r] = "failed"]
    /\ Send(r, 400)
    /\ pc' = [pc EXCEPT ![r] = "halted"]
    /\ UNCHANGED <<reqVars, dataVars, payload, ctl, readAfterStop, quits, response, queried, decVars, tempVars,
                   chainVars>>

\* the server answers the query; oboe starts parsing
ArcgisResponse(r, P) ==
    /\ pc[r] = "arcgis" /\ conn[r] = "connecting"
    /\ conn' = [conn EXCEPT ![r] = "open"]
    /\ \E p \in P.arcgis : payload' = [payload EXCEPT ![r] = p]
    /\ StartDecoder(r, "arcgis")
    /\ UNCHANGED <<sent, reqVars, fields, ctl, readAfterStop, quits, response, queried, entryIdx, tempVars,
                   chainVars>>

\* .node('error') sends; .node('fields.*.name') pushes the names
ArcgisHeader(r) ==
    /\ pc[r] = "header" /\ decoder[r] = "arcgis"
    /\ IF payload[r].errNode
         THEN Send(r, 400) /\ UNCHANGED fields
         ELSE fields' = [fields EXCEPT ![r] = @ \o HeaderFields] /\ UNCHANGED sent
    /\ pc' = [pc EXCEPT ![r] = "decoding"]
    /\ UNCHANGED <<reqVars, results, netVars, decVars, tempVars, chainVars>>

\* .node('features.*.attributes')
ArcgisFeature(r) ==
    /\ pc[r] = "decoding" /\ decoder[r] = "arcgis"
    /\ pos[r] < Len(Served(r)) /\ pos[r] # ServedBad(r)
    /\ results' = [results EXCEPT ![r] = Append(@, Served(r)[pos[r] + 1])]
    /\ pos' = [pos EXCEPT ![r] = @ + 1]
    /\ UNCHANGED <<pc, sent, reqVars, fields, netVars, decoder, started, entryIdx,
                   tempVars, chainVars>>

\* .fail while parsing: the answer is not JSON
ArcgisFail(r) ==
    /\ pc[r] = "decoding" /\ decoder[r] = "arcgis"
    /\ pos[r] = ServedBad(r)
    /\ Send(r, 400)
    /\ pc' = [pc EXCEPT ![r] = "halted"]
    /\ UNCHANGED <<reqVars, dataVars, netVars, decVars, tempVars, chainVars>>

\* .done
ArcgisDone(r) ==
    /\ pc[r] = "decoding" /\ decoder[r] = "arcgis"
    /\ pos[r] = Len(Served(r)) /\ ServedBad(r) = -1
    /\ conn' = [conn EXCEPT ![r] = "ended"]
    /\ IF ~headersSent(r)
         THEN pc' = [pc EXCEPT ![r] = "finished"] /\ CallNext(r)
         ELSE pc' = [pc EXCEPT ![r] = "halted"] /\ UNCHANGED cleanupPending
    /\ UNCHANGED <<sent, reqVars, dataVars, payload, ctl, readAfterStop, quits, response, queried, decVars,
                   tempVars, outputPending, cleanups>>

\* ------------------------------------------------- the rest of the chain
\* no router takes a request whose type is none of ESRI, http, ftp: every
\* protocolCheck calls next('route')
protocolCheck(r) ==
    /\ pc[r] = "routers" /\ type[r] \notin {"ESRI", "http", "ftp"}
    /\ pc' = [pc EXCEPT ![r] = "finished"]
    /\ CallNext(r)
    /\ UNCHANGED <<sent, reqVars, dataVars, netVars, decVars, tempVars, outputPending,
                   cleanups>>

\* oboe(stream).abort() and .fail leave the stream alone: oboe's 'data'
\* listener keeps it flowing to its end
GeoJsonDrain(r) ==
    /\ decoder[r] = "geojson" /\ FedByConn(r)
    /\ pc[r] \in {"aborted", "halted"}
    /\ conn[r] = "open"
    /\ conn' = [conn EXCEPT ![r] = "ended"]
    /\ readAfterStop' = [readAfterStop EXCEPT ![r] = TRUE]
    /\ UNCHANGED <<pc, sent, reqVars, dataVars, payload, ctl, quits, response, queried, decVars, tempVars,
                   chainVars>>

\* a chain in which next() out of the routers leads straight to output
cleanupTempSkipped(r) ==
    /\ cleanupPending[r] > 0
    /\ cleanupPending' = [cleanupPending EXCEPT ![r] = @ - 1]
    /\ outputPending' = [outputPending EXCEPT ![r] = @ + 1]
    /\ UNCHANGED <<pc, sent, reqVars, dataVars, netVars, decVars, tempVars, cleanups>>

\* res.locals.temp.cleanup(): every file the scope tracks is unlinked, then
\* the callback calls next()
cleanupTemp(r) ==
    /\ cleanupPending[r] > 0
    /\ LET files == tracked[tempScope[r]]
       IN  /\ tempFile' = [f \in Requests |-> IF f \in files THEN "deleted" ELSE tempFile[f]]
           /\ deletedBy' = [f \in Requests |-> IF f \in files THEN r ELSE deletedBy[f]]
           /\ tracked' = [tracked EXCEPT ![tempScope[r]] = {}]
    /\ cleanupPending' = [cleanupPending EXCEPT ![r] = @ - 1]
    /\ outputPending' = [outputPending EXCEPT ![r] = @ + 1]
    /\ cleanups' = [cleanups EXCEPT ![r] = @ + 1]
    /\ UNCHANGED <<pc, sent, reqVars, dataVars, netVars, decVars, tempScope, copied>>

output(r) ==
    /\ outputPending[r] > 0
    /\ outputPending' = [outputPending EXCEPT ![r] = @ - 1]
    /\ IF ~headersSent(r) THEN Send(r, 200) ELSE UNCHANGED sent
    /\ UNCHANGED <<pc, reqVars, dataVars, netVars, decVars, tempVars, cleanupPending,
                   cleanups>>

\* --------------------------------------------------------- specifications
\* what a remote source may serve
AnyPayload ==
    [geojson |-> GeoJsonPayloads, csv |-> CsvPayloads, zip |-> ZipPayloads,
     arcgis |-> ArcgisPayloads]

\* one /sample request, every query and every source
Next ==
    \E r \in {1} :
        \/ Receive(r, Queries)
        \/ preconditionsCheck(r)
        \/ determineType(r)
        \/ setupTemp(r)
        \/ protocolCheck(r)
        \/ sampleArcgis(r) \/ ArcgisConnFail(r) \/ ArcgisResponse(r, AnyPayload)
        \/ ArcgisHeader(r) \/ ArcgisFeature(r) \/ ArcgisFail(r) \/ ArcgisDone(r)
        \/ sampleHttpSource(r) \/ HttpError(r) \/ HttpStatusError(r) \/ HttpErrorBody(r)
        \/ HttpResponse(r, AnyPayload) \/ CsvCopied(r) \/ CsvCopyError(r)
        \/ sampleFtpSource(r) \/ FtpError(r) \/ FtpAuth(r) \/ FtpGetError(r)
        \/ FtpGet(r, AnyPayload)
        \/ ZipCopied(r) \/ ZipOpened(r) \/ ZipEntry(r) \/ EntryOpened(r) \/ ZipError(r)
        \/ ZipEnd(r)
        \/ parseGeoJsonStream(r) \/ GeoJsonFail(r) \/ GeoJsonDone(r) \/ GeoJsonDrain(r)
        \/ CsvHeader(r) \/ CsvNoData(r) \/ parseCsvStream(r) \/ CsvError(r) \/ CsvFinish(r)
        \/ DbfHeader(r) \/ parseDbfStream(r) \/ DbfError(r) \/ DbfEnd(r)
        \/ cleanupTemp(r)
        \/ output(r)

Spec == Init /\ [][Next]_vars


\* two /sample requests in flight at once, both over HTTP and both buffering
\* to a temp file (a .zip that holds one .csv, or a .csv)
ConcQueries ==
    {q \in Queries : /\ q.source.kind = "url" /\ q.source.protocol = "http:"
                     /\ ~q.source.arcgis /\ q.source.ext \in {".zip", ".csv"}
                     /\ q.size = Digits(1) /\ q.offset = Absent}
ConcPayload ==
    [geojson |-> {}, arcgis |-> {},
     csv |-> {p \in CsvPayloads : p.n \in {1, 2} /\ p.bad = -1},
     zip |-> {p \in ZipPayloads : p.n \in {1, 2} /\ p.bad = -1 /\ p.deleted = {}
                                  /\ p.entries = <<"csv">>}]

NextConc ==
    \E r \in {1, 2} :
        \/ Receive(r, ConcQueries)
        \/ preconditionsCheck(r)
        \/ determineType(r)
        \/ setupTemp(r)
        \/ sampleHttpSource(r)
        \/ HttpResponse(r, ConcPayload)
        \/ CsvCopied(r)
        \/ ZipCopied(r) \/ ZipOpened(r) \/ ZipEntry(r) \/ EntryOpened(r)
        \/ CsvHeader(r) \/ parseCsvStream(r) \/ CsvFinish(r)
        \/ cleanupTemp(r)
        \/ output(r)

SpecConc == Init /\ [][NextConc]_vars

\* three /sample requests for one static source, one after the other, with
\* the windows (a, n), (a + n, m) and (a, n + m); each starts where setupTemp
\* left it.  The source is well formed and, for ArcGIS, served by a server
\* that pages.
WindowSources ==
    LET small == {p \in Payloads : p.bad = -1}
        big == {[p EXCEPT !.n = k] : p \in {q \in Payloads : q.n = 0 /\ q.bad = -1},
                                     k \in {LineLimit - 1, LineLimit + 1}}
        plain == small \cup big
        url(proto, ext) == [kind |-> "url", protocol |-> proto, arcgis |-> FALSE, ext |-> ext]
    IN  {[url |-> url(proto, ext), payload |-> p] :
            proto \in {"http:", "ftp:"}, ext \in {".geojson", ".csv"}, p \in plain}
        \cup {[url |-> url(proto, ".zip"), payload |-> [p EXCEPT !.entries = es]] :
                proto \in {"http:", "ftp:"}, p \in small,
                es \in {<<"csv">>, <<"other", "geojson">>}}
        \cup {[url |-> url("http:", ".zip"),
               payload |-> [p EXCEPT !.entries = <<"dbf">>, !.deleted = d]] :
                p \in small, d \in {{}, {1}}}
        \cup {[url |-> [kind |-> "url", protocol |-> "https:", arcgis |-> TRUE, ext |-> ".txt"],
               payload |-> p] : p \in small}

WindowOffsets == (0..MaxOffset) \cup {LineLimit - 3, LineLimit - 2}

InitWindow ==
    \E src \in WindowSources, a \in WindowOffsets, n \in 1..MaxSize, m \in 1..MaxSize :
        LET off == <<a, a + n, a>>
            sz == <<n, m, n + m>>
            c == Classify(src.url)
        IN  /\ pc = [r \in Requests |-> IF r <= 3 THEN "routers" ELSE "idle"]
            /\ query = [r \in Requests |->
                           IF r <= 3 THEN [source |-> src.url, size |-> Digits(sz[r]),
                                           offset |-> Digits(off[r])]
                                     ELSE NoQuery]
            /\ size = [r \in Requests |-> IF r <= 3 THEN sz[r] ELSE 0]
            /\ offset = [r \in Requests |-> IF r <= 3 THEN off[r] ELSE 0]
            /\ type = [r \in Requests |-> IF r <= 3 THEN c.type ELSE "undefined"]
            /\ ctype = [r \in Requests |-> IF r <= 3 THEN c.ctype ELSE "none"]
            /\ compression = [r \in Requests |-> IF r <= 3 THEN c.compression ELSE "none"]
            /\ csvsplit = [r \in Requests |-> "undefined"]
            /\ payload = [r \in Requests |-> IF r <= 3 THEN src.payload ELSE NoPayload]
            /\ tempScope = [r \in Requests |-> IF r <= 3 THEN TempScopeOf(r) ELSE -1]
    /\ fields = [r \in Requests |-> << >>]
    /\ results = [r \in Requests |-> << >>]
    /\ sends = [r \in Requests |-> << >>]
    /\ bodies = [r \in Requests |-> << >>]
    /\ conn = [r \in Requests |-> "none"]
    /\ ctl = [r \in Requests |-> "none"]
    /\ decoder = [r \in Requests |-> "none"]
    /\ started = [r \in Requests |-> 0]
    /\ pos = [r \in Requests |-> 0]
    /\ entryIdx = [r \in Requests |-> 0]
    /\ tracked = [s \in Scopes |-> {}]
    /\ tempFile = [r \in Requests |-> "none"]
    /\ deletedBy = [r \in Requests |-> 0]
    /\ copied = [r \in Requests |-> -1]
    /\ cleanupPending = [r \in Requests |-> 0]
    /\ outputPending = [r \in Requests |-> 0]
    /\ cleanups = [r \in Requests |-> 0]
    /\ readAfterStop = [r \in Requests |-> FALSE]
    /\ quits = [r \in Requests |-> 0]
    /\ response = [r \in Requests |-> NoResponse]
    /\ queried = [r \in Requests |-> << >>]

\* the source serves request r what it serves every request
Static(r) ==
    [geojson |-> {payload[r]}, csv |-> {payload[r]}, zip |-> {payload[r]},
     arcgis |-> {payload[r]}]

\* request r is the first of the three that is not answered yet
Turn(r) ==
    /\ \A q \in 1..(r - 1) : headersSent(q)
    /\ ~headersSent(r)

NextWindow ==
    \E r \in 1..3 :
        \/ Turn(r) /\ sampleArcgis(r)
        \/ Turn(r) /\ ArcgisResponse(r, Static(r))
        \/ Turn(r) /\ ArcgisHeader(r)
        \/ Turn(r) /\ ArcgisFeature(r)
        \/ Turn(r) /\ ArcgisDone(r)
        \/ Turn(r) /\ sampleHttpSource(r)
        \/ Turn(r) /\ HttpResponse(r, Static(r))
        \/ Turn(r) /\ CsvCopied(r)
        \/ Turn(r) /\ sampleFtpSource(r)
        \/ Turn(r) /\ FtpAuth(r)
        \/ Turn(r) /\ FtpGet(r, Static(r))
        \/ Turn(r) /\ ZipCopied(r)
        \/ Turn(r) /\ ZipOpened(r)
        \/ Turn(r) /\ ZipEntry(r)
        \/ Turn(r) /\ EntryOpened(r)
        \/ Turn(r) /\ parseGeoJsonStream(r)
        \/ Turn(r) /\ GeoJsonDone(r)
        \/ Turn(r) /\ GeoJsonDrain(r)
        \/ Turn(r) /\ CsvHeader(r)
        \/ Turn(r) /\ parseCsvStream(r)
        \/ Turn(r) /\ CsvFinish(r)
        \/ Turn(r) /\ DbfHeader(r)
        \/ Turn(r) /\ parseDbfStream(r)
        \/ Turn(r) /\ DbfEnd(r)
        \/ Turn(r) /\ cleanupTemp(r)
        \/ Turn(r) /\ output(r)

SpecWindow == InitWindow /\ [][NextWindow]_vars

\* the validation steps of /sample alone, for every kind of size and offset
\* parameter
MoreExts == {".Csv", ".psv", ".PSV", ".GEOJSON", ".ZIP", ".json"}
ValidationQueries ==
    [source : Urls \cup {NoSource, BadUrl}
                   \cup [kind : {"url"}, protocol : {"http:", "ftp:"}, arcgis : BOOLEAN,
                         ext : MoreExts],
     size : RawSizes \cup {Word} \cup {Negative(k) : k \in 1..MaxSize},
     offset : RawOffsets \cup {Word} \cup {Negative(k) : k \in 1..MaxSize}]

NextValidation ==
    \E r \in {1} :
        \/ Receive(r, ValidationQueries)
        \/ preconditionsCheck(r)
        \/ determineType(r)
        \/ setupTemp(r)

SpecValidation == Init /\ [][NextValidation]_vars

\* one /sample request for a delimited file over FTP, over every header line
\* with up to MaxCount occurrences of each candidate delimiter
Headers == [CandidateSet -> 0..MaxCount]
SniffQueries ==
    {q \in Queries : /\ q.source.kind = "url" /\ q.source.protocol = "ftp:"
                     /\ ~q.source.arcgis /\ q.source.ext \in {".csv", ".TSV"}
                     /\ q.size = Absent /\ q.offset = Absent}
SniffPayload ==
    [geojson |-> {}, arcgis |-> {}, zip |-> {},
     csv |-> {[p EXCEPT !.header = h] :
                 p \in {q \in Payloads : q.n = 1 /\ q.bad = -1}, h \in Headers}]

NextSniff ==
    \E r \in {1} :
        \/ Receive(r, SniffQueries)
        \/ preconditionsCheck(r)
        \/ determineType(r)
        \/ setupTemp(r)
        \/ sampleFtpSource(r) \/ FtpAuth(r) \/ FtpGet(r, SniffPayload)
        \/ CsvHeader(r) \/ parseCsvStream(r) \/ CsvFinish(r)
        \/ cleanupTemp(r)
        \/ output(r)

SpecSniff == Init /\ [][NextSniff]_vars

\* ------------------------------------------------------------- chunking
\* two requests for delimited text over FTP; the transport delivers the
\* file with or without a chunk boundary inside the header line
ChunkHeaders ==
    {h \in Headers : /\ h["pipe"] = 0 /\ h["tab"] = 0 /\ h["comma"] = 1
                     /\ h["semicolon"] \in {0, MaxCount}}
Chunks ==
    {NoCut} \cup {[cut |-> TRUE, seen |-> h] :
                     h \in {g \in Headers : /\ g["pipe"] = 0 /\ g["tab"] = 0
                                             /\ g["semicolon"] = 0 /\ g["comma"] <= 1}}
ChunkQueries ==
    {q \in Queries : /\ q.source.kind = "url" /\ q.source.protocol = "ftp:"
                     /\ ~q.source.arcgis /\ q.source.ext = ".csv"
                     /\ q.size = Absent
                     /\ q.offset \in {Absent, Digits(MaxOffset)}}
ChunkPayload ==
    [geojson |-> {}, arcgis |-> {}, zip |-> {},
     csv |-> UNION {{[p EXCEPT !.header = h, !.chunk = c] :
                        p \in {q \in Payloads : q.n \in 1..2 /\ q.bad = -1},
                        c \in {d \in Chunks : \A k \in CandidateSet : d.seen[k] <= h[k]}} :
                    h \in ChunkHeaders}]

NextChunks ==
    \E r \in 1..2 :
        \/ Receive(r, ChunkQueries)
        \/ preconditionsCheck(r)
        \/ determineType(r)
        \/ setupTemp(r)
        \/ sampleFtpSource(r) \/ FtpAuth(r) \/ FtpGet(r, ChunkPayload)
        \/ CsvHeader(r) \/ CsvRemainder(r) \/ parseCsvStream(r) \/ CsvFinish(r)
        \/ cleanupTemp(r)
        \/ output(r)

SpecChunks == Init /\ [][NextChunks]_vars

\* ------------------------------------------------- the legacy /fields chain
\* app.js: GET /fields for a source that no router serves, for a .zip over
\* HTTP that holds .csv, .geojson and other entries (well formed, no .dbf),
\* and for a .geojson over FTP
FieldsLimit == 10
\* the resultRecordCount the legacy sampleArcgis asks for
ArcgisRecordCount == 10
FieldsQueries ==
    {q \in Queries : /\ q.size = Absent /\ q.offset = Absent
                     /\ q.source.kind = "url" =>
                          /\ ~q.source.arcgis
                          /\ \/ /\ q.source.protocol \in {"http:", "https:", "file:"}
                                /\ q.source.ext \in {".zip", ".TSV", ".txt"}
                             \/ /\ q.source.protocol = "http:"
                                /\ q.source.ext = ".geojson"
                             \/ /\ q.source.protocol = "ftp:"
                                /\ q.source.ext = ".geojson"}
        \cup {q \in Queries : /\ q.source.kind = "url" /\ q.source.arcgis
                              /\ q.source.protocol = "https:" /\ q.source.ext = ".txt"
                              /\ q.offset = Absent}
FieldsGeoJsonPayloads ==
    {[p EXCEPT !.n = n] : p \in {q \in Payloads : q.n = 0 /\ q.bad <= 0},
                          n \in {FieldsLimit, FieldsLimit + 1}}
        \cup {p \in Payloads : WellFormed(p)}
FieldsPayloads ==
    {[n |-> n, bad |-> -1, empty |-> FALSE, deleted |-> {}, paging |-> TRUE,
      errNode |-> FALSE, entries |-> es, bare |-> {}, header |-> PlainHeader, chunk |-> NoCut] :
        n \in (0..MaxRecords) \cup {FieldsLimit, FieldsLimit + 1},
        es \in SeqsUpTo({"csv", "geojson", "other"}, MaxEntries)}
        \cup {[n |-> n, bad |-> -1, empty |-> FALSE, deleted |-> d, paging |-> TRUE,
               errNode |-> FALSE, entries |-> <<"dbf">>, bare |-> {},
               header |-> PlainHeader, chunk |-> NoCut] :
                 n \in (0..MaxRecords) \cup {FieldsLimit + 1},
                 d \in {{}} \cup {{j} : j \in 0..(MaxRecords - 1)}}

\* res.status(code).type('text/plain').send(<message>)
SendText(r, code) ==
    /\ sends' = [sends EXCEPT ![r] = Append(@, code)]
    /\ bodies' = [bodies EXCEPT ![r] = Append(@, "text")]

\* next() out of a sampler: the chain goes on to output
FieldsNext(r) == outputPending' = [outputPending EXCEPT ![r] = @ + 1]

fieldsPreconditionsCheck(r) ==
    /\ pc[r] = "preconditionsCheck"
    /\ IF query[r].source.kind = "missing"
         THEN SendText(r, 400) /\ pc' = [pc EXCEPT ![r] = "halted"]
         ELSE pc' = [pc EXCEPT ![r] = "determineType"] /\ UNCHANGED sent
    /\ UNCHANGED <<reqVars, dataVars, netVars, decVars, tempVars, chainVars>>

\* the branch of the if / else-if chain of the legacy determineType
FieldsClassify(u) ==
    IF u.arcgis THEN [type |-> "ESRI", ctype |-> "geojson", compression |-> "none", ok |-> TRUE]
    ELSE IF u.ext = ".geojson"
      THEN [type |-> getProtocol(u.protocol), ctype |-> "geojson", compression |-> "none", ok |-> TRUE]
    ELSE IF u.ext = ".csv"
      THEN [type |-> getProtocol(u.protocol), ctype |-> "csv", compression |-> "none", ok |-> TRUE]
    ELSE IF u.ext = ".zip"
      THEN [type |-> getProtocol(u.protocol), ctype |-> "none", compression |-> "zip", ok |-> TRUE]
    ELSE [type |-> "undefined", ctype |-> "none", compression |-> "none", ok |-> FALSE]

fieldsDetermineType(r) ==
    /\ pc[r] = "determineType"
    /\ IF query[r].source.kind = "unparsable"
         THEN /\ SendText(r, 400)
              /\ pc' = [pc EXCEPT ![r] = "halted"]
              /\ UNCHANGED <<type, ctype, compression>>
         ELSE LET c == FieldsClassify(query[r].source)
              IN  /\ type' = [type EXCEPT ![r] = c.type]
                  /\ ctype' = [ctype EXCEPT ![r] = c.ctype]
                  /\ compression' = [compression EXCEPT ![r] = c.compression]
                  /\ IF c.ok
                       THEN pc' = [pc EXCEPT ![r] = "routers"] /\ UNCHANGED sent
                       ELSE SendText(r, 400) /\ pc' = [pc EXCEPT ![r] = "halted"]
    /\ UNCHANGED <<query, size, offset, csvsplit, dataVars, netVars, decVars, tempVars, chainVars>>

\* every router answers next('route'): the chain goes on to output
typecheck(r) ==
    /\ pc[r] = "routers"
    /\ type[r] = "undefined"
    /\ FieldsNext(r)
    /\ pc' = [pc EXCEPT ![r] = "finished"]
    /\ UNCHANGED <<sent, reqVars, dataVars, netVars, decVars, tempVars, cleanupPending,
                   cleanups>>

sampleHttpZip(r) ==
    /\ pc[r] = "routers"
    /\ type[r] = "http" /\ ctype[r] = "none" /\ compression[r] = "zip"
    /\ conn' = [conn EXCEPT ![r] = "connecting"]
    /\ pc' = [pc EXCEPT ![r] = "connecting"]
    /\ UNCHANGED <<sent, reqVars, dataVars, payload, ctl, readAfterStop, quits, response, queried, decVars,
                   tempVars, chainVars>>

\* r 'error': the request fails before or while the body arrives
fieldsHttpError(r) ==
    /\ conn[r] \in {"connecting", "open"}
    /\ conn' = [conn EXCEPT ![r] = "failed"]
    /\ SendText(r, 400)
    /\ pc' = [pc EXCEPT ![r] = IF @ \in {"connecting", "zipWalk", "entry"} THEN "halted" ELSE @]
    /\ UNCHANGED <<reqVars, dataVars, payload, ctl, readAfterStop, quits, response, queried, decVars, tempVars,
                   chainVars>>

\* r 'response' with a status other than 200: the body is collected and sent
fieldsHttpStatusError(r) ==
    /\ pc[r] = "connecting" /\ conn[r] = "connecting"
    /\ \E resp \in Responses :
         resp.statusCode # 200 /\ response' = [response EXCEPT ![r] = resp]
    /\ conn' = [conn EXCEPT ![r] = "ended"]
    /\ SendText(r, 400)
    /\ pc' = [pc EXCEPT ![r] = "halted"]
    /\ UNCHANGED <<reqVars, dataVars, payload, ctl, readAfterStop, quits, queried, decVars, tempVars,
                   chainVars>>

\* r 'response' with status 200: the body is piped to unzip.Parse()
fieldsHttpResponse(r) ==
    /\ pc[r] = "connecting" /\ conn[r] = "connecting"
    /\ response' = [response EXCEPT ![r] = Ok]
    /\ conn' = [conn EXCEPT ![r] = "open"]
    /\ \E p \in FieldsPayloads : payload' = [payload EXCEPT ![r] = p]
    /\ entryIdx' = [entryIdx EXCEPT ![r] = 1]
    /\ pc' = [pc EXCEPT ![r] = "zipWalk"]
    /\ UNCHANGED <<sent, reqVars, dataVars, ctl, readAfterStop, quits, queried, decoder, started, pos,
                   tempVars, chainVars>>

\* unzip 'entry': every .csv and every .geojson entry is piped to a decoder of
\* its own, a .dbf entry is piped to a temp file with results reset to [], any
\* other entry is drained
fieldsZipEntry(r) ==
    /\ pc[r] = "zipWalk" /\ conn[r] = "open"
    /\ entryIdx[r] <= Len(payload[r].entries)
    /\ LET kind == payload[r].entries[entryIdx[r]]
       IN  IF kind = "other"
             THEN /\ entryIdx' = [entryIdx EXCEPT ![r] = @ + 1]
                  /\ UNCHANGED <<pc, ctype, decoder, started, pos, results, tempVars>>
           ELSE IF kind = "dbf"
             THEN /\ ctype' = [ctype EXCEPT ![r] = "shapefile"]
                  /\ results' = [results EXCEPT ![r] = << >>]
                  /\ tempFile' = [tempFile EXCEPT ![r] = "open"]
                  /\ tracked' = [tracked EXCEPT ![TempModule] = @ \cup {r}]
                  /\ decoder' = [decoder EXCEPT ![r] = kind]
                  /\ started' = [started EXCEPT ![r] = @ + 1]
                  /\ pos' = [pos EXCEPT ![r] = 0]
                  /\ pc' = [pc EXCEPT ![r] = "dbfCopy"]
                  /\ UNCHANGED <<entryIdx, tempScope, deletedBy, copied>>
             ELSE /\ ctype' = [ctype EXCEPT ![r] = kind]
                  /\ decoder' = [decoder EXCEPT ![r] = kind]
                  /\ started' = [started EXCEPT ![r] = @ + 1]
                  /\ pos' = [pos EXCEPT ![r] = 0]
                  /\ pc' = [pc EXCEPT ![r] = "entry"]
                  /\ UNCHANGED <<entryIdx, results, tempVars>>
    /\ UNCHANGED <<sent, query, size, offset, type, compression, csvsplit, fields, netVars,
                   chainVars>>

\* 'finish' of the temp file: dbfstream opens it and emits 'header'
fieldsDbfHeader(r) ==
    /\ pc[r] = "dbfCopy" /\ conn[r] = "open"
    /\ tempFile' = [tempFile EXCEPT ![r] = "closed"]
    /\ fields' = [fields EXCEPT ![r] = HeaderFields]
    /\ pc' = [pc EXCEPT ![r] = "dbf"]
    /\ UNCHANGED <<sent, reqVars, results, netVars, decVars, tempScope, tracked, deletedBy,
                   copied, chainVars>>

\* dbfstream 'data', also for a record flagged deleted: the record is kept
\* while results.length < 10 and it is not deleted, else next() is called
\* unless next_was_called (pc "dbfNexted"); the reading goes on either way
fieldsDbfRecord(r) ==
    /\ pc[r] \in {"dbf", "dbfNexted"} /\ conn[r] = "open"
    /\ pos[r] < payload[r].n
    /\ pos' = [pos EXCEPT ![r] = @ + 1]
    /\ IF Len(results[r]) < FieldsLimit /\ pos[r] \notin payload[r].deleted
         THEN /\ results' = [results EXCEPT ![r] = Append(@, pos[r])]
              /\ UNCHANGED <<outputPending, pc>>
         ELSE /\ IF pc[r] = "dbf"
                   THEN FieldsNext(r) /\ pc' = [pc EXCEPT ![r] = "dbfNexted"]
                   ELSE UNCHANGED <<outputPending, pc>>
              /\ UNCHANGED results
    /\ UNCHANGED <<sent, reqVars, fields, netVars, decoder, started, entryIdx, tempVars,
                   cleanupPending, cleanups>>

\* dbfstream 'end': next() unless next_was_called; the archive's parser has
\* gone on to the next entry
fieldsDbfEnd(r) ==
    /\ pc[r] \in {"dbf", "dbfNexted"} /\ conn[r] = "open"
    /\ pos[r] = payload[r].n
    /\ IF pc[r] = "dbf" THEN FieldsNext(r) ELSE UNCHANGED outputPending
    /\ entryIdx' = [entryIdx EXCEPT ![r] = @ + 1]
    /\ pc' = [pc EXCEPT ![r] = "zipWalk"]
    /\ UNCHANGED <<sent, reqVars, dataVars, netVars, decoder, started, pos, tempVars,
                   cleanupPending, cleanups>>

\* one record of the entry reaches its decoder.  csv: the through2 stage keeps
\* it while results.length < 10, else destroys itself ('close' -> next).
\* geojson: every properties node is kept, features[9] aborts and calls next.
\* An entry that is no longer consumed stalls the archive's parser.
fieldsEntryRecord(r) ==
    /\ pc[r] = "entry" /\ conn[r] = "open"
    /\ pos[r] < payload[r].n
    /\ IF decoder[r] = "csv" /\ Len(results[r]) >= FieldsLimit
         THEN /\ FieldsNext(r)
              /\ pc' = [pc EXCEPT ![r] = "aborted"]
              /\ UNCHANGED <<fields, results, pos>>
         ELSE /\ fields' = [fields EXCEPT ![r] = Keys(payload[r], pos[r])]
              /\ results' = [results EXCEPT ![r] = Append(@, pos[r])]
              /\ pos' = [pos EXCEPT ![r] = @ + 1]
              /\ IF decoder[r] = "geojson" /\ pos[r] = FieldsLimit - 1
                   THEN FieldsNext(r) /\ pc' = [pc EXCEPT ![r] = "aborted"]
                   ELSE UNCHANGED <<outputPending, pc>>
    /\ UNCHANGED <<sent, reqVars, netVars, decoder, started, entryIdx, tempVars,
                   cleanupPending, cleanups>>

\* the entry is read to its end: 'finish' (csv) / done (geojson) calls next(),
\* and the archive's parser goes on to the next entry
fieldsEntryEnd(r) ==
    /\ pc[r] = "entry" /\ conn[r] = "open"
    /\ pos[r] = payload[r].n
    /\ FieldsNext(r)
    /\ entryIdx' = [entryIdx EXCEPT ![r] = @ + 1]
    /\ pc' = [pc EXCEPT ![r] = "zipWalk"]
    /\ UNCHANGED <<sent, reqVars, dataVars, netVars, decoder, started, pos, tempVars,
                   cleanupPending, cleanups>>

\* unzip 'finish': the archive is read to its end
fieldsZipFinish(r) ==
    /\ pc[r] = "zipWalk" /\ conn[r] = "open"
    /\ entryIdx[r] > Len(payload[r].entries)
    /\ conn' = [conn EXCEPT ![r] = "ended"]
    /\ IF ctype[r] = "none" THEN SendText(r, 400) ELSE UNCHANGED sent
    /\ pc' = [pc EXCEPT ![r] = "finished"]
    /\ UNCHANGED <<reqVars, dataVars, payload, ctl, readAfterStop, quits, response, queried, decVars, tempVars,
                   chainVars>>

\* the legacy output sends without looking at res.headersSent
fieldsOutput(r) ==
    /\ outputPending[r] > 0
    /\ outputPending' = [outputPending EXCEPT ![r] = @ - 1]
    /\ Send(r, 200)
    /\ UNCHANGED <<pc, reqVars, dataVars, netVars, decVars, tempVars, cleanupPending,
                   cleanups>>

sampleFtpGeojson(r) ==
    /\ pc[r] = "routers"
    /\ type[r] = "ftp" /\ ctype[r] = "geojson" /\ compression[r] = "none"
    /\ ctl' = [ctl EXCEPT ![r] = "connecting"]
    /\ pc' = [pc EXCEPT ![r] = "ftpGet"]
    /\ UNCHANGED <<sent, reqVars, dataVars, payload, conn, readAfterStop, quits, response, queried, decVars,
                   tempVars, chainVars>>

\* the callback of ftp.get: an error is only written to the console, else
\* the stream is handed to oboe
fieldsFtpGet(r) ==
    /\ pc[r] = "ftpGet"
    /\ \E err \in BOOLEAN :
         IF err
           THEN /\ pc' = [pc EXCEPT ![r] = "halted"]
                /\ ctl' = [ctl EXCEPT ![r] = "failed"]
                /\ UNCHANGED <<payload, conn, decoder, started, pos>>
           ELSE /\ \E p \in FieldsGeoJsonPayloads : payload' = [payload EXCEPT ![r] = p]
                /\ ctl' = [ctl EXCEPT ![r] = "open"]
                /\ conn' = [conn EXCEPT ![r] = "open"]
                /\ decoder' = [decoder EXCEPT ![r] = "geojson"]
                /\ started' = [started EXCEPT ![r] = @ + 1]
                /\ pos' = [pos EXCEPT ![r] = 0]
                /\ pc' = [pc EXCEPT ![r] = "ftpDecoding"]
    /\ UNCHANGED <<sent, reqVars, dataVars, readAfterStop, quits, response, queried, entryIdx, tempVars,
                   chainVars>>

\* oboe node 'features.*.properties': fields is assigned and the record kept;
\* features[9] aborts, issues QUIT and calls next() from its callback
fieldsFtpFeature(r) ==
    /\ pc[r] = "ftpDecoding" /\ conn[r] = "open"
    /\ pos[r] < payload[r].n /\ pos[r] # payload[r].bad
    /\ fields' = [fields EXCEPT ![r] = Keys(payload[r], pos[r])]
    /\ results' = [results EXCEPT ![r] = Append(@, pos[r])]
    /\ pos' = [pos EXCEPT ![r] = @ + 1]
    /\ IF pos[r] = FieldsLimit - 1
         THEN /\ quits' = [quits EXCEPT ![r] = @ + 1]
              /\ FieldsNext(r)
              /\ pc' = [pc EXCEPT ![r] = "aborted"]
         ELSE UNCHANGED <<quits, outputPending, pc>>
    /\ UNCHANGED <<sent, reqVars, payload, conn, ctl, readAfterStop, response, queried, decoder, started,
                   entryIdx, tempVars, cleanupPending, cleanups>>

\* oboe .fail: the error is written to the console and next() is called
fieldsFtpFail(r) ==
    /\ pc[r] = "ftpDecoding" /\ conn[r] = "open"
    /\ pos[r] = payload[r].bad
    /\ FieldsNext(r)
    /\ pc' = [pc EXCEPT ![r] = "failed"]
    /\ UNCHANGED <<sent, reqVars, dataVars, netVars, decVars, tempVars, cleanupPending,
                   cleanups>>

\* oboe .done: QUIT is issued and its callback calls next()
fieldsFtpDone(r) ==
    /\ pc[r] = "ftpDecoding" /\ conn[r] = "open"
    /\ pos[r] = payload[r].n /\ payload[r].bad = -1
    /\ conn' = [conn EXCEPT ![r] = "ended"]
    /\ quits' = [quits EXCEPT ![r] = @ + 1]
    /\ FieldsNext(r)
    /\ pc' = [pc EXCEPT ![r] = "finished"]
    /\ UNCHANGED <<sent, reqVars, dataVars, payload, ctl, readAfterStop, response, queried, decVars, tempVars,
                   cleanupPending, cleanups>>

\* sampleHttpGeojson: oboe requests the URL itself and parses the answer
sampleHttpGeojson(r) ==
    /\ pc[r] = "routers"
    /\ type[r] = "http" /\ ctype[r] = "geojson" /\ compression[r] = "none"
    /\ \E p \in FieldsGeoJsonPayloads : payload' = [payload EXCEPT ![r] = p]
    /\ conn' = [conn EXCEPT ![r] = "open"]
    /\ decoder' = [decoder EXCEPT ![r] = "geojson"]
    /\ started' = [started EXCEPT ![r] = @ + 1]
    /\ pos' = [pos EXCEPT ![r] = 0]
    /\ pc' = [pc EXCEPT ![r] = "httpDecoding"]
    /\ UNCHANGED <<sent, reqVars, dataVars, ctl, readAfterStop, quits, response, queried, entryIdx, tempVars,
                   chainVars>>

\* oboe node 'features[*].properties': fields is assigned from every feature
\* and the record kept; features[9] aborts and calls next()
fieldsHttpFeature(r) ==
    /\ pc[r] = "httpDecoding" /\ conn[r] = "open"
    /\ pos[r] < payload[r].n /\ pos[r] # payload[r].bad
    /\ fields' = [fields EXCEPT ![r] = Keys(payload[r], pos[r])]
    /\ results' = [results EXCEPT ![r] = Append(@, pos[r])]
    /\ pos' = [pos EXCEPT ![r] = @ + 1]
    /\ IF pos[r] = FieldsLimit - 1
         THEN FieldsNext(r) /\ pc' = [pc EXCEPT ![r] = "aborted"]
         ELSE UNCHANGED <<outputPending, pc>>
    /\ UNCHANGED <<sent, reqVars, netVars, decoder, started, entryIdx, tempVars,
                   cleanupPending, cleanups>>

\* oboe .fail: connection refused, a status other than 2xx, or text that is
\* not JSON
fieldsHttpFail(r) ==
    /\ pc[r] = "httpDecoding" /\ conn[r] = "open"
    /\ pos[r] = payload[r].bad
    /\ conn' = [conn EXCEPT ![r] = "failed"]
    /\ SendText(r, 400)
    /\ pc' = [pc EXCEPT ![r] = "halted"]
    /\ UNCHANGED <<reqVars, dataVars, payload, ctl, readAfterStop, quits, response, queried, decVars, tempVars,
                   chainVars>>

\* oboe .done: next() is called whatever was sent
fieldsHttpDone(r) ==
    /\ pc[r] = "httpDecoding" /\ conn[r] = "open"
    /\ pos[r] = payload[r].n /\ payload[r].bad = -1
    /\ conn' = [conn EXCEPT ![r] = "ended"]
    /\ FieldsNext(r)
    /\ pc' = [pc EXCEPT ![r] = "finished"]
    /\ UNCHANGED <<sent, reqVars, dataVars, payload, ctl, readAfterStop, quits, response, queried, decVars,
                   tempVars, cleanupPending, cleanups>>

\* the legacy sampleArcgis: one query with resultRecordCount=10 and
\* resultOffset=0, whatever the request's parameters; oboe parses the answer
fieldsSampleArcgis(r) ==
    /\ pc[r] = "routers"
    /\ type[r] = "ESRI" /\ ctype[r] = "geojson" /\ compression[r] = "none"
    /\ queried' = [queried EXCEPT ![r] =
                      Append(@, [resultRecordCount |-> ArcgisRecordCount, resultOffset |-> 0])]
    /\ \E p \in ArcgisPayloads : payload' = [payload EXCEPT ![r] = p]
    /\ conn' = [conn EXCEPT ![r] = "open"]
    /\ decoder' = [decoder EXCEPT ![r] = "arcgis"]
    /\ started' = [started EXCEPT ![r] = @ + 1]
    /\ pos' = [pos EXCEPT ![r] = 0]
    /\ pc' = [pc EXCEPT ![r] = "arcgisHeader"]
    /\ UNCHANGED <<sent, reqVars, dataVars, ctl, readAfterStop, quits, response, entryIdx,
                   tempVars, chainVars>>

\* the features the service answers the last query with
FieldsServed(r) ==
    LET q == queried[r][Len(queried[r])]
    IN  IF payload[r].paging
          THEN Range(q.resultOffset, Min(payload[r].n, q.resultOffset + q.resultRecordCount))
          ELSE Range(0, payload[r].n)

FieldsServedBad(r) == IF payload[r].bad <= Len(FieldsServed(r)) THEN payload[r].bad ELSE -1

\* .node('fields.*.name') pushes the names; an error answer has none
fieldsArcgisHeader(r) ==
    /\ pc[r] = "arcgisHeader" /\ conn[r] = "open"
    /\ fields' = [fields EXCEPT ![r] = IF payload[r].errNode THEN @ ELSE @ \o HeaderFields]
    /\ pc' = [pc EXCEPT ![r] = "arcgisDecoding"]
    /\ UNCHANGED <<sent, reqVars, results, netVars, decVars, tempVars, chainVars>>

\* .node('features.*.attributes')
fieldsArcgisFeature(r) ==
    /\ pc[r] = "arcgisDecoding" /\ conn[r] = "open"
    /\ pos[r] < Len(FieldsServed(r)) /\ pos[r] # FieldsServedBad(r)
    /\ results' = [results EXCEPT ![r] = Append(@, FieldsServed(r)[pos[r] + 1])]
    /\ pos' = [pos EXCEPT ![r] = @ + 1]
    /\ UNCHANGED <<pc, sent, reqVars, fields, netVars, decoder, started, entryIdx,
                   tempVars, chainVars>>

\* .fail: connection refused, a status other than 2xx, or text that is not JSON
fieldsArcgisFail(r) ==
    /\ pc[r] = "arcgisDecoding" /\ conn[r] = "open"
    /\ pos[r] = FieldsServedBad(r)
    /\ conn' = [conn EXCEPT ![r] = "failed"]
    /\ SendText(r, 400)
    /\ pc' = [pc EXCEPT ![r] = "halted"]
    /\ UNCHANGED <<reqVars, dataVars, payload, ctl, readAfterStop, quits, response, queried,
                   decVars, tempVars, chainVars>>

\* .done: next()
fieldsArcgisDone(r) ==
    /\ pc[r] = "arcgisDecoding" /\ conn[r] = "open"
    /\ pos[r] = Len(FieldsServed(r)) /\ FieldsServedBad(r) = -1
    /\ conn' = [conn EXCEPT ![r] = "ended"]
    /\ FieldsNext(r)
    /\ pc' = [pc EXCEPT ![r] = "finished"]
    /\ UNCHANGED <<sent, reqVars, dataVars, payload, ctl, readAfterStop, quits, response,
                   queried, decVars, tempVars, cleanupPending, cleanups>>

NextFields ==
    \E r \in {1} :
        \/ Receive(r, FieldsQueries)
        \/ fieldsPreconditionsCheck(r)
        \/ fieldsDetermineType(r)
        \/ typecheck(r)
        \/ sampleHttpZip(r)
        \/ fieldsHttpError(r) \/ fieldsHttpStatusError(r) \/ fieldsHttpResponse(r)
        \/ fieldsZipEntry(r) \/ fieldsEntryRecord(r) \/ fieldsEntryEnd(r)
        \/ fieldsDbfHeader(r) \/ fieldsDbfRecord(r) \/ fieldsDbfEnd(r)
        \/ fieldsZipFinish(r)
        \/ sampleFtpGeojson(r) \/ fieldsFtpGet(r)
        \/ fieldsFtpFeature(r) \/ fieldsFtpFail(r) \/ fieldsFtpDone(r)
        \/ sampleHttpGeojson(r)
        \/ fieldsHttpFeature(r) \/ fieldsHttpFail(r) \/ fieldsHttpDone(r)
        \/ fieldsSampleArcgis(r) \/ fieldsArcgisHeader(r)
        \/ fieldsArcgisFeature(r) \/ fieldsArcgisFail(r) \/ fieldsArcgisDone(r)
        \/ fieldsOutput(r)

SpecFields == Init /\ [][NextFields]_vars


\* ------------------------------------------------------------------ claims

\* C1: the cleanup step of one request never deletes a temp file created by
\* another request that has not yet finished (been answered).
C1_TempScopeOwned ==
    [][\A f \in Requests :
          (tempFile[f] # "deleted" /\ tempFile'[f] = "deleted")
              => (deletedBy'[f] = f \/ headersSent(f))]_vars

\* C2: in every reachable state the number of records in results is at most
\* size, whichever decoder is active.
C2_ResultsWithinSize == \A r \in Requests : Len(results[r]) <= size[r]

\* C3: a request that passed setupTemp has run cleanupTemp by the time it is
\* answered, on the success path and on every error path.
C3_CleanupBeforeDone ==
    \A r \in Requests : (tempScope[r] # -1 /\ headersSent(r)) => cleanups[r] >= 1

\* C4: no handler sends a response for a request that was already answered.
C4_AtMostOneResponse == \A r \in Requests : Len(sends[r]) <= 1

\* the pending I/O completions of request r: every step of the pipeline but
\* the spontaneous failures of a connection that is up (HttpError, FtpError),
\* of the archive (ZipError) and of the line-limiting stage (CsvCopyError)
Progress(r) ==
    \/ preconditionsCheck(r) \/ determineType(r) \/ setupTemp(r) \/ protocolCheck(r)
    \/ sampleArcgis(r) \/ ArcgisConnFail(r) \/ ArcgisResponse(r, AnyPayload)
    \/ ArcgisHeader(r) \/ ArcgisFeature(r) \/ ArcgisFail(r) \/ ArcgisDone(r)
    \/ sampleHttpSource(r) \/ HttpStatusError(r) \/ HttpErrorBody(r)
    \/ HttpResponse(r, AnyPayload) \/ CsvCopied(r)
    \/ sampleFtpSource(r) \/ FtpAuth(r) \/ FtpGetError(r) \/ FtpGet(r, AnyPayload)
    \/ ZipCopied(r) \/ ZipOpened(r) \/ ZipEntry(r) \/ EntryOpened(r) \/ ZipEnd(r)
    \/ parseGeoJsonStream(r) \/ GeoJsonFail(r) \/ GeoJsonDone(r) \/ GeoJsonDrain(r)
    \/ CsvHeader(r) \/ CsvNoData(r) \/ parseCsvStream(r) \/ CsvError(r) \/ CsvFinish(r)
    \/ DbfHeader(r) \/ parseDbfStream(r) \/ DbfError(r) \/ DbfEnd(r)
    \/ cleanupTemp(r) \/ output(r)

\* C5: with every pending I/O event delivered, a request ends answered: a
\* received request that has no pending event left has sent its response.
C5_AnsweredWhenQuiet ==
    \A r \in Requests : (pc[r] # "idle" /\ ~ENABLED Progress(r)) => headersSent(r)

\* C8: once a decoder has stopped early because size records were collected,
\* the transport's connection is not left open and no further bytes are read
\* from it.
C8_EarlyStopClosesTransport ==
    \A r \in Requests :
        (pc[r] = "aborted" /\ size[r] >= 1 /\ Len(results[r]) = size[r])
            => (conn[r] # "open" /\ ~readAfterStop[r])

\* C9: an FTP request whose control connection was established has issued QUIT
\* by the time it is answered.
C9_QuitBeforeDone ==
    \A r \in Requests : (ctl[r] = "open" /\ headersSent(r)) => quits[r] >= 1


\* the records of r's source a sampler can return: all, but for a DBF file
\* those not flagged deleted
Available(r) ==
    SelectSeq([i \in 1..payload[r].n |-> i - 1], LAMBDA j : j \notin payload[r].deleted)

\* C6: a request answered with 200 returns min(size, records left after
\* skipping offset records) records, on every transport and format (for
\* delimited text over HTTP: even when the temp copy is read back whole).
C6_CountIsWindow ==
    \A r \in Requests :
        (/\ sends[r] = <<200>>
         /\ started[r] = 1
         /\ (ViaTempCsv(r) => copied[r] = Min(payload[r].n + 1, LineLimit)))
            => Len(results[r]) = Min(size[r], Max(Len(Available(r)) - offset[r], 0))

\* the three samplings are answered with 200
Sampled == \A r \in 1..3 : sends[r] = <<200>>

\* C7: on a static source the results for (a, n) followed by those for
\* (a + n, m) are the results for (a, n + m): they are disjoint, and together
\* they are one contiguous run of the source's records, split at index n.
C7_WindowsCompose ==
    Sampled =>
        /\ results[1] \o results[2] = results[3]
        /\ \A i \in 1..Len(results[1]), j \in 1..Len(results[2]) :
               results[1][i] # results[2][j]
        /\ results[3] = SubSeq(Available(3), offset[3] + 1,
                               Min(offset[3] + Len(results[3]), Len(Available(3))))
        /\ results[1] = SubSeq(results[3], 1, Min(size[1], Len(results[3])))

\* the three samplings of C7 were answered, the first with a full window
C7_Witness ==
    /\ Sampled
    /\ Len(results[1]) = size[1]
    /\ Len(results[2]) >= 1
    /\ offset[1] >= 1


\* C10: within one request at most one decoder is ever started; of a ZIP with
\* several recognized entries only the first one is dispatched to a decoder.
C10_OneDecoder == \A r \in Requests : started[r] <= 1


\* the decoder started for r met malformed input and its error handler ran
DecodeFailed(r) ==
    /\ started[r] >= 1
    /\ pc[r] \in {"halted", "failed"}
    /\ payload[r].bad # -1
    /\ pos[r] = IF decoder[r] = "csv" THEN VisibleBad(r) ELSE payload[r].bad

\* C11: a request whose decoder failed after it had collected records is
\* never answered with a 200 (whose body carries those records).
C11_NoSuccessAfterDecodeFailure ==
    \A r \in Requests :
        (DecodeFailed(r) /\ Len(results[r]) >= 1)
            => \A k \in 1..Len(sends[r]) : sends[r][k] # 200


\* C12: every failure response, of /sample and of /fields, has status 400 and
\* a JSON body of the shape {error: {code: 400, message}}.
C12_FailuresAreJson400 ==
    \A r \in Requests :
        \A k \in 1..Len(sends[r]) :
            sends[r][k] # 200 => (sends[r][k] = 400 /\ bodies[r][k] = "error")


\* validation has run for r and its query is one that validation rejects: no
\* source, a source that is no URL, or a path of no supported type
Rejected(r) ==
    /\ pc[r] \notin {"idle", "preconditionsCheck", "determineType"}
    /\ \/ query[r].source.kind \in {"missing", "unparsable"}
       \/ ~Classify(query[r].source).ok

NotNatural(raw) == raw.kind \in {"word", "negative"}

\* C14: determineType answers 400 to every request whose size or offset is
\* supplied but is not a non-negative integer.
C14_BadWindowRejected ==
    \A r \in Requests :
        (/\ pc[r] \notin {"idle", "preconditionsCheck", "determineType"}
         /\ query[r].source.kind = "url"
         /\ (NotNatural(query[r].size) \/ NotNatural(query[r].offset)))
            => sends[r] = <<400>>


\* an extension in lower case
Lower(ext) ==
    CASE ext \in {".csv", ".CSV", ".Csv"} -> ".csv"
      [] ext \in {".tsv", ".TSV"} -> ".tsv"
      [] ext \in {".psv", ".PSV"} -> ".psv"
      [] ext \in {".geojson", ".GEOJSON"} -> ".geojson"
      [] ext \in {".zip", ".ZIP"} -> ".zip"
      [] OTHER -> ext

\* the path of u matches the ArcGIS pattern, .geojson, .csv/.tsv/.psv in any
\* case, or .zip
Supported(u) ==
    \/ u.arcgis
    \/ u.ext = ".geojson"
    \/ Lower(u.ext) \in {".csv", ".tsv", ".psv"}
    \/ u.ext = ".zip"

\* C15: determineType answers 400 exactly to the URLs whose path matches none
\* of the supported patterns; a URL that matches one passes with the format
\* and compression of the first pattern it matches.
C15_UnsupportedIffNoMatch ==
    \A r \in Requests :
        (/\ pc[r] \notin {"idle", "preconditionsCheck", "determineType"}
         /\ query[r].source.kind = "url")
            => LET u == query[r].source
               IN  /\ (sends[r] = <<400>>) <=> ~Supported(u)
                   /\ ~Supported(u) => pc[r] = "halted"
                   /\ Supported(u) =>
                        /\ sends[r] = << >>
                        /\ pc[r] \in {"setupTemp", "routers"}
                        /\ ctype[r] = IF u.arcgis \/ u.ext = ".geojson" THEN "geojson"
                                      ELSE IF u.ext = ".zip" THEN "none" ELSE "csv"
                        /\ compression[r] = IF ~u.arcgis /\ u.ext = ".zip" THEN "zip"
                                            ELSE "none"

\* an upper-case delimited extension passed, an upper-case .zip was refused
C15_Witness ==
    \E r \in Requests :
        /\ pc[r] \in {"setupTemp", "routers", "halted"}
        /\ query[r].source.kind = "url" /\ ~query[r].source.arcgis
        /\ \/ query[r].source.ext = ".PSV" /\ ctype[r] = "csv"
           \/ query[r].source.ext = ".ZIP" /\ sends[r] = <<400>>


\* the request's URL matches the ArcGIS pattern and determineType has run
ArcgisRequest(r) ==
    /\ pc[r] \notin {"idle", "preconditionsCheck", "determineType"}
    /\ query[r].source.kind = "url" /\ query[r].source.arcgis

\* C16: a URL that matches the ArcGIS pattern is classified type ESRI with
\* format geojson whatever its extension and scheme, and only sampleArcgis
\* handles it: no HTTP or FTP adapter step, no temp file, no other decoder.
C16_ArcgisOnly ==
    \A r \in Requests :
        ArcgisRequest(r) =>
            /\ type[r] = "ESRI" /\ ctype[r] = "geojson" /\ compression[r] = "none"
            /\ pc[r] \notin {"connecting", "ftpAuth"}
            /\ ctl[r] = "none" /\ quits[r] = 0
            /\ tempFile[r] = "none" /\ copied[r] = -1
            /\ decoder[r] \in {"none", "arcgis"}
            /\ (conn[r] # "none" => pc[r] # "routers")

\* an ftp: URL with a .zip extension that matches the pattern was sampled by
\* sampleArcgis
C16_Witness ==
    \E r \in Requests :
        /\ ArcgisRequest(r)
        /\ query[r].source.protocol = "ftp:" /\ query[r].source.ext = ".zip"
        /\ decoder[r] = "arcgis" /\ Len(results[r]) >= 1


\* C17: a URL whose scheme is none of http:, https:, ftp: (and whose path is
\* not an ArcGIS one) is never answered 200.
C17_OtherSchemeNeverSampled ==
    \A r \in Requests :
        (/\ query[r].source.kind = "url"
         /\ ~query[r].source.arcgis
         /\ query[r].source.protocol \notin {"http:", "https:", "ftp:"})
            => \A k \in 1..Len(sends[r]) : sends[r][k] # 200


\* the request's archive was opened and none of its entries is a recognized one
NoRecognizedEntry(r) ==
    /\ compression[r] = "zip" /\ entryIdx[r] >= 1
    /\ \A i \in 1..Len(payload[r].entries) : payload[r].entries[i] = "other"

\* the archive has been enumerated to its end
Enumerated(r) ==
    /\ NoRecognizedEntry(r)
    /\ entryIdx[r] > Len(payload[r].entries)
    /\ pc[r] # "zipWalk"

\* C18: an archive without a recognized entry is never answered 200, and once
\* it has been enumerated to its end the request has been answered 400.
C18_UnrecognizedZipIs400 ==
    \A r \in Requests :
        /\ NoRecognizedEntry(r) => \A k \in 1..Len(sends[r]) : sends[r][k] = 400
        /\ Enumerated(r) => sends[r] # << >>

\* an empty archive, or one of two unrecognized entries, was enumerated to
\* its end and answered 400
C18_Witness ==
    \E r \in Requests :
        /\ Enumerated(r)
        /\ Len(payload[r].entries) \in {0, 2}
        /\ sends[r] = <<400>>
        /\ pc[r] \in {"halted", "finished"}


\* C19: whatever events the decoders emit, next() is called at most once per
\* request (calls that ran cleanupTemp plus calls still pending), so
\* cleanupTemp runs at most once per request.
C19_CleanupAtMostOnce ==
    \A r \in Requests : cleanups[r] + cleanupPending[r] <= 1

\* a GeoJSON or CSV decoder stopped early with more input left to come, and
\* the request was cleaned up once and answered
C19_Witness ==
    \E r \in Requests :
        /\ pc[r] = "aborted" /\ decoder[r] \in {"geojson", "csv"}
        /\ pos[r] <= payload[r].n
        /\ cleanups[r] = 1 /\ cleanupPending[r] = 0
        /\ sends[r] = <<200>>


\* C20: the field list of a request is never overwritten once it is non-empty.
C20_FieldsSetOnce ==
    [][\A r \in Requests : fields[r] # << >> => fields'[r] = fields[r]]_vars


\* C21: whenever the results of a request hold a record, its field list is
\* not empty.
C21_FieldsWhenResults ==
    \A r \in Requests : results[r] # << >> => fields[r] # << >>


\* s is a prefix of t
IsPrefix(s, t) == Len(s) <= Len(t) /\ \A k \in 1..Len(s) : s[k] = t[k]

\* the results of r are the records offset, offset + 1, ... of its source,
\* as far as they go
InSourceRun(r) ==
    \A k \in 1..Len(results[r]) :
        /\ offset[r] + k <= Len(Available(r))
        /\ results[r][k] = Available(r)[offset[r] + k]

Sniffed(r) == decoder[r] = "csv" /\ fields[r] = HeaderFields

\* candidate c occurs in the header line at least as often as every other one
MostFrequent(h, c) == h[c] >= 1 /\ \A d \in CandidateSet : h[d] <= h[c]

\* the first candidate of the list `order` among the most frequent ones
FirstMost(order, h) ==
    order[CHOOSE i \in 1..Len(order) :
             /\ MostFrequent(h, order[i])
             /\ \A j \in 1..(i - 1) : ~MostFrequent(h, order[j])]

Tied(h) == {c \in CandidateSet : MostFrequent(h, c)}

\* the place of a candidate in the order comma, pipe, tab, semicolon
Place(c) ==
    CASE c = "comma" -> 1 [] c = "pipe" -> 2 [] c = "tab" -> 3 [] c = "semicolon" -> 4

\* C25: when two or more candidates share the highest count of the header
\* line, the detected delimiter is the one of them that comes first in the
\* order comma, pipe, tab, semicolon.
C25_TieBrokenByCandidateOrder ==
    \A r \in Requests :
        (Sniffed(r) /\ Cardinality(Tied(payload[r].header)) >= 2)
            => /\ csvsplit[r] \in Tied(payload[r].header)
               /\ \A d \in Tied(payload[r].header) : Place(csvsplit[r]) <= Place(d)

\* a header line with as many pipes as tabs and semicolons, and fewer commas,
\* was sniffed
C25_Witness ==
    \E r \in Requests :
        /\ Sniffed(r)
        /\ Tied(payload[r].header) = {"pipe", "tab", "semicolon"}
        /\ payload[r].header["comma"] >= 1
        /\ csvsplit[r] = "pipe"


\* C24: a request is answered 200 only after its cleanupTemp has run and its
\* callback has fired: by then the temp file of the request, if it made one,
\* is unlinked.
C24_CleanupBefore200 ==
    \A r \in Requests :
        (\E k \in 1..Len(sends[r]) : sends[r][k] = 200)
            => cleanups[r] >= 1 /\ tempFile[r] \in {"none", "deleted"}

\* a request that buffered its source in a temp file was answered 200
C24_Witness ==
    \E r \in Requests :
        /\ sends[r] = <<200>> /\ Len(results[r]) >= 1
        /\ tempFile[r] = "deleted" /\ deletedBy[r] = r
        /\ cleanups[r] = 1


\* r samples a GeoJSON source that has at least offset + size features and is
\* well formed up to the last feature of the window
GeoJsonWindowServed(r) ==
    /\ decoder[r] = "geojson"
    /\ payload[r].n >= offset[r] + size[r]
    /\ payload[r].bad = -1 \/ payload[r].bad >= offset[r] + size[r]

\* C26: when the GeoJSON decoder of such a request has signalled completion,
\* results holds exactly the features offset .. offset+size-1, fields holds
\* the property keys of feature offset, and no later feature was processed.
C26_GeoJsonWindow ==
    \A r \in Requests :
        (GeoJsonWindowServed(r) /\ pc[r] \in {"aborted", "finished"})
            => /\ results[r] = Range(offset[r], offset[r] + size[r])
               /\ size[r] >= 1 => fields[r] = Keys(payload[r], offset[r])
               /\ pos[r] = offset[r] + size[r]


\* C27: as soon as the delimited-text decoder has collected size rows it has
\* signalled completion (next() was called), also while the rows that follow
\* in the source have not yet arrived.
C27_CsvDoneAtSize ==
    \A r \in Requests :
        (/\ decoder[r] = "csv" /\ size[r] >= 1
         /\ Len(results[r]) = size[r]
         /\ pos[r] < payload[r].n)
            => cleanups[r] + cleanupPending[r] >= 1

\* the 2xx status codes
Successful == {c \in StatusCodes : c \div 100 = 2}

\* C28: the HTTP adapter treats a response as an error exactly when its status
\* is not 2xx: the step that receives a 2xx response neither sends an error nor
\* starts to collect an error body, and the step that receives any other
\* status does one of the two.
C28_ErrorIffNot2xx ==
    [][\A r \in Requests :
          (response[r] = NoResponse /\ response'[r] # NoResponse)
              => ((response'[r].statusCode \in Successful)
                    <=> (sends'[r] = sends[r] /\ pc'[r] # "errbody"))]_vars

\* the size and the offset a request asks for, with the defaults
RequestedSize(r) == DefaultTo(ParseInt(query[r].size), DefaultSize).val
RequestedOffset(r) == DefaultTo(ParseInt(query[r].offset), DefaultOffset).val

\* C29: an ArcGIS request that was handed to its adapter has sent exactly one
\* query, with resultRecordCount equal to the request's size and resultOffset
\* equal to the request's offset.
C29_OneArcgisQuery ==
    \A r \in Requests :
        (ArcgisRequest(r) /\ type[r] = "ESRI" /\ pc[r] \notin {"setupTemp", "routers"})
            => /\ Len(queried[r]) = 1
               /\ queried[r][1].resultRecordCount = RequestedSize(r)
               /\ queried[r][1].resultOffset = RequestedOffset(r)

\* C30: in DBF decoding the step that reads a record flagged deleted neither
\* adds it to results nor signals completion (no next() is called).
C30_DeletedRecordInvisible ==
    [][\A r \in Requests :
          (/\ decoder[r] = "dbf" /\ pos'[r] = pos[r] + 1
           /\ pos[r] \in payload[r].deleted)
              => /\ results'[r] = results[r]
                 /\ cleanupPending'[r] = cleanupPending[r]
                 /\ outputPending'[r] = outputPending[r]]_vars

\* C33: in every 200 response for a delimited-text source whose header line
\* was sniffed, conform.csvsplit is one of comma, pipe, tab, semicolon.
C33_DelimiterIsCandidate ==
    \A r \in Requests :
        (Sniffed(r) /\ ctype[r] = "csv"
         /\ \E k \in 1..Len(sends[r]) : sends[r][k] = 200)
            => csvsplit[r] \in CandidateSet

\* the lines the line-limiting stage of the HTTP adapter passes on to the temp
\* file: the header line and the rows, LineLimit lines at most
Retained(r) == Min(IF payload[r].empty THEN 0 ELSE payload[r].n + 1, LineLimit)

\* C32: for delimited text over HTTP, once parseCsvStream has been started on
\* the temp file, the file it reads holds every line the line-limiting stage
\* retained, in the short-file case and in the capped case alike.
C32_TempFileComplete ==
    \A r \in Requests :
        (ViaTempCsv(r) /\ decoder[r] = "csv" /\ started[r] >= 1)
            => copied[r] = Retained(r)

\* the two requests ask for the same window of the same bytes
SameSampling(a, b) ==
    /\ [payload[a] EXCEPT !.chunk = NoCut] = [payload[b] EXCEPT !.chunk = NoCut]
    /\ size[a] = size[b] /\ offset[a] = offset[b]

\* C31: two samplings of the same delimited-text bytes with the same size and
\* offset that were both answered with 200 have the same fields, delimiter and
\* results, however the transport cut the stream into chunks.
C31_ChunkingIndependent ==
    \A a, b \in Requests :
        (/\ decoder[a] = "csv" /\ decoder[b] = "csv"
         /\ sends[a] = <<200>> /\ sends[b] = <<200>>
         /\ SameSampling(a, b))
            => /\ fields[a] = fields[b]
               /\ csvsplit[a] = csvsplit[b]
               /\ results[a] = results[b]
====
